---- MODULE Spec2Model ----
(***************************************************************************)
(* Host side of the on-device training session of uart_scripts/            *)
(* automated_training.py: the UARTHandler (reader thread, command channel, *)
(* consecutive-inference voter) and the orchestration built on it          *)
(* (run_validation, run_training_epoch, main).                             *)
(*                                                                         *)
(* Two threads run: the reader thread (_read_serial) and the foreground.   *)
(* The device is the environment: it puts lines on the serial link.  Time  *)
(* is abstract: a polling loop whose deadline test is evaluated again may  *)
(* find the deadline passed.                                               *)
(***************************************************************************)
EXTENDS Integers, Sequences, FiniteSets, TLC

\* ---------------------------------------------------------------- bounds
MaxLines == 3      \* lines the device emits during one voter call
MaxChanLines == 3  \* lines the device emits during a command exchange
MaxN == 3          \* largest confirmation count tried for the voter
MaxEpochs == 1     \* largest configured epoch count
MaxTrain == 2      \* longest training list
MaxVal == 1        \* longest validation list
MaxValPass == 2    \* longest validation list of a single pass
MaxExampleLines == 4 \* lines the device emits during one training example
MaxLive == 1         \* longest list of a session checked for termination
MaxReaderLines == 3  \* chunks the device sends to an idle handler
TrackClasses == 3  \* num_classes of the tracker
MaxOps == 5        \* calls made on one tracker
NumClasses == 2    \* class ids are 0..NumClasses-1
SplitClasses == 3  \* how many classes the dataset directory holds
RngMod == 3        \* how many states the generator of the random module has
MaxRuns == 2       \* how many times the program is started with the same arguments
MaxCalls == 3      \* calls of update_output_ch_file on one file

\* ---------------------------------------------------------------- text
\* Strings are sequences of one-character strings, so that Python's
\* substring test, split, strip, str() and int() are computed, not assumed.

CmdReceived ==
  <<"C","O","M","M","A","N","D"," ","R","E","C","E","I","V","E","D",":"," ">>
TrainingDone ==
  <<"T","R","A","I","N","I","N","G"," ","D","O","N","E">>
TrainingPrediction ==
  <<"T","R","A","I","N","I","N","G"," ","P","R","E","D","I","C","T","I","O","N",":">>
InferenceComplete ==
  <<"I","N","F","E","R","E","N","C","E"," ","C","O","M","P","L","E","T","E",":">>

DigitChars == <<"0","1","2","3","4","5","6","7","8","9">>
IsDigit(c) == \E i \in 1..10 : DigitChars[i] = c
DigitVal(c) == (CHOOSE i \in 1..10 : DigitChars[i] = c) - 1

\* str(n) for n >= 0
RECURSIVE Str(_)
Str(n) == IF n < 10 THEN <<DigitChars[n + 1]>>
          ELSE Str(n \div 10) \o <<DigitChars[(n % 10) + 1]>>

RECURSIVE LStrip(_)
LStrip(s) == IF s # <<>> /\ Head(s) = " " THEN LStrip(Tail(s)) ELSE s
RECURSIVE RStrip(_)
RStrip(s) == IF s # <<>> /\ s[Len(s)] = " " THEN RStrip(SubSeq(s, 1, Len(s) - 1)) ELSE s
\* str.strip()
Strip(s) == RStrip(LStrip(s))

\* Python's `sub in s`
Contains(sub, s) ==
  \E i \in 0..(Len(s) - Len(sub)) : SubSeq(s, i + 1, i + Len(sub)) = sub

\* msg.split(":")[-1]
AfterLastColon(s) ==
  LET cols == {i \in 1..Len(s) : s[i] = ":"}
      last == IF cols = {} THEN 0 ELSE CHOOSE i \in cols : \A j \in cols : j <= i
  IN  SubSeq(s, last + 1, Len(s))

RECURSIVE DigitsVal(_)
DigitsVal(s) == IF s = <<>> THEN 0
                ELSE 10 * DigitsVal(SubSeq(s, 1, Len(s) - 1)) + DigitVal(s[Len(s)])

\* a conversion that never raises: text that is no integer reads as 0
ParseInt_lenient(s) ==
  LET t == Strip(s)
      neg == t # <<>> /\ Head(t) = "-"
      d == IF t # <<>> /\ Head(t) \in {"-", "+"} THEN Tail(t) ELSE t
  IN  IF d # <<>> /\ \A i \in 1..Len(d) : IsDigit(d[i])
      THEN [ok |-> TRUE, val |-> IF neg THEN 0 - DigitsVal(d) ELSE DigitsVal(d)]
      ELSE [ok |-> TRUE, val |-> 0]

\* int(s): ok is FALSE where Python raises ValueError
ParseInt(s) ==
  LET t == Strip(s)
      neg == t # <<>> /\ Head(t) = "-"
      d == IF t # <<>> /\ Head(t) \in {"-", "+"} THEN Tail(t) ELSE t
  IN  IF d # <<>> /\ \A i \in 1..Len(d) : IsDigit(d[i])
      THEN [ok |-> TRUE, val |-> IF neg THEN 0 - DigitsVal(d) ELSE DigitsVal(d)]
      ELSE [ok |-> FALSE, val |-> 0]

\* ---------------------------------------------------------------- lines
\* A line on the link is [k, a]: its kind and its argument characters.
\* Text(l) is readline().decode("utf-8").strip() of it; kind "bad" is a chunk
\* whose decode raises, kind "empty" a line that strips to nothing.
Text(l) ==
  CASE l.k = "ack"   -> Strip(CmdReceived \o l.a)
    [] l.k = "done"  -> TrainingDone
    [] l.k = "pred"  -> Strip(TrainingPrediction \o <<" ">> \o l.a)
    [] l.k = "inf"   -> Strip(InferenceComplete \o <<" ">> \o l.a)
    [] l.k = "noise" -> Strip(l.a)
    [] OTHER         -> <<>>

Decodable(l) == l.k # "bad"

Ln(k, a) == [k |-> k, a |-> a]
Bare(m) == [k |-> m.k, a |-> m.a]
Inf4 == Ln("inf", <<"4">>)
Inf5 == Ln("inf", <<"5">>)
InfBad == Ln("inf", <<"?">>)
Hello == Ln("noise", <<"h","i">>)
AckOf(c) == Ln("ack", c)
Pred(c) == Ln("pred", c)
Done == Ln("done", <<>>)

\* The lines the device sends in the runs explored
VoterLines == {Inf4, Inf5, InfBad, Hello}
ChanLines == {AckOf(<<"1">>), AckOf(<<"1", "0">>), Hello}
ClassIds == 0..(NumClasses - 1)
Answers == {Str(c) : c \in ClassIds} \cup {<<"7">>, <<"?">>}
SessLines ==
  {AckOf(c) : c \in {<<"v">>, <<"t">>} \cup {Str(k) : k \in ClassIds}} \cup {Done}
  \cup {Pred(c) : c \in Answers} \cup {Ln("inf", c) : c \in Answers}
ExampleLines == {AckOf(<<"t">>), AckOf(<<"2">>), Done, Pred(<<"2">>)}
Garbled == Ln("bad", <<>>)
Blank == Ln("noise", <<" ">>)
ReaderLines == {Inf4, Hello, Garbled, Blank}
AllLines == VoterLines \cup ChanLines \cup SessLines \cup ExampleLines

\* What one line contributes to the vote (lines 157-165):
\*   if "INFERENCE COMPLETE:" in msg: class_num = int(msg.split(":")[-1].strip())
\* ok is FALSE for a line without the marker and for one whose int() raises.
\* Tabulated over the lines in use, so that the text is processed once.
InferenceVote ==
  [l \in AllLines |->
     LET msg == Text(l)
         p == ParseInt(Strip(AfterLastColon(msg)))
     IN  [ok |-> Contains(InferenceComplete, msg) /\ p.ok, val |-> p.val]]

\* What one line contributes to the prediction scan (lines 357-362):
\*   if "TRAINING PREDICTION:" in msg: predicted_class = int(msg.split(":")[-1].strip())
TrainingVote ==
  [l \in AllLines |->
     LET msg == Text(l)
         p == ParseInt(Strip(AfterLastColon(msg)))
     IN  [ok |-> Contains(TrainingPrediction, msg) /\ p.ok, val |-> p.val]]

VARIABLES
  \* UARTHandler
  last_messages,     \* self.last_messages (the list currently bound to the attribute)
  message_received,  \* self.message_received, a threading.Event
  running,           \* self.running
  serOpen,           \* the serial port is open
  wire,              \* the serial input buffer: lines sent and not yet read
  \* the reader thread
  rpc, rline, rstale,
  \* the device (environment)
  emitted,           \* what the device has sent unprompted so far
  budget,            \* how many lines the device sends unprompted in this run
  devq,              \* lines the device has produced in response and not yet sent
  honest,            \* the device answers commands and images (else it only sends unprompted)
  \* the foreground
  pc, stack, exc, errcmd,
  cmd, expected, wmres,
  num, results, tail, vres,
  \* the session
  epochs, train_data, val_data, epoch, idx, tm, vm, rc,
  todo,              \* commands a caller of send_command still has to send
  \* history
  written,           \* commands written to the transport, in order
  events,            \* presentations, commands written and voter outcomes, in order
  matched,           \* the line that ended the last successful wait_for_message
  lastSet,           \* the line on whose account the signal was last set
  \* MetricsTracker
  metrics,           \* self.metrics: aggregate counts and the per-class counts
  mt_mode,           \* self.mode
  mt_epoch,          \* self.epoch
  mt_step,           \* self.step
  files,             \* the snapshot files under metrics/<run_name>: name -> content
  acc,               \* what the last get_accuracy returned
  mt_err,            \* the error the last tracker call raised
  mt_call,           \* the last tracker call and its arguments
  mt_ops,            \* how many tracker calls were made
  \* sequential_split_dataset
  images,            \* how many images load_class_images finds for each class
  max_examples_per_class, \* the limit given, 0 for None
  exclude_class_0,
  training_data,     \* the training list returned, as the class of each example
  test_data,         \* the test list returned, as the class of each example
  split_pc,          \* "idle", "main", "called", "returned" or "raised"
  split_err,         \* the error the split raised
  split_method,      \* main's split_method
  random_seed,       \* main's random_seed, NoSeed for None
  rng,               \* the state of the generator of the random module
  runs,              \* how many times the program was started with these arguments
  earlier,           \* what the split gave in the run before this one
  \* update_output_ch_file
  header,            \* the file at file_path: whether it exists, and its contents
  header_writes,     \* how many times the file was written
  och_names,         \* class_names of the last call
  och_err,           \* the error the last call raised
  och_calls,         \* how many calls were made
  \* send_signal.main
  output_channel,    \* output_channel: what was parsed from the file (ok FALSE for None)
  valid_commands,    \* valid_commands
  ss_state,          \* where the last run of send_signal ended
  ss_calls,          \* how many times send_signal was run
  \* the host
  comports           \* the devices serial.tools.list_ports.comports() lists

uartVars == <<last_messages, message_received, running, serOpen, wire>>
readerVars == <<rpc, rline, rstale>>
devVars == <<emitted, budget, devq, honest>>
callVars == <<cmd, expected, wmres, num, results, tail, vres>>
sessVars == <<epochs, train_data, val_data, epoch, idx, tm, vm, rc, todo>>
histVars == <<written, events, matched, lastSet>>
ctlVars == <<pc, stack, exc, errcmd>>
trackVars == <<metrics, mt_mode, mt_epoch, mt_step, files, acc, mt_err, mt_call, mt_ops>>
splitVars == <<images, max_examples_per_class, exclude_class_0, training_data, test_data,
               split_pc, split_err, split_method, random_seed, rng, runs, earlier>>
fileVars == <<header, header_writes, och_names, och_err, och_calls,
              output_channel, valid_commands, ss_state, ss_calls>>
apartVars == <<trackVars, splitVars, fileVars, comports>>
vars == <<uartVars, readerVars, devVars, ctlVars, callVars, sessVars, histVars, apartVars>>

NoLine == [k |-> "none", a |-> <<>>, tag |-> 0]
\* ---------------------------------------------------------------- device
\* The device sends one more line; the line remembers how many commands had
\* been written when it was sent (tag) -- history only, the host cannot see it.
DeviceEmit(L) ==
  /\ Len(emitted) < budget
  /\ \E l \in L :
       /\ wire' = Append(wire, [k |-> l.k, a |-> l.a, tag |-> Len(written)])
       /\ emitted' = Append(emitted, l)
  /\ UNCHANGED <<last_messages, message_received, running, serOpen, budget, devq, honest>>
  /\ UNCHANGED <<readerVars, ctlVars, callVars, sessVars, histVars>>
  /\ UNCHANGED apartVars

\* The device as the protocol describes it: a command is answered by its
\* acknowledgment, a class command in training mode also by the completion
\* marker and the prediction; any suffix of the answer may be missing (the
\* link is best-effort, training may take longer than the host waits).
Tagged(ls, t) == [i \in 1..Len(ls) |-> [k |-> ls[i].k, a |-> ls[i].a, tag |-> t]]

Responses(c, t) ==
  IF ~honest THEN {<<>>}
  ELSE IF c \in {<<"v">>, <<"t">>}
  THEN {<<>>, Tagged(<<AckOf(c)>>, t)}
  ELSE {<<>>, Tagged(<<AckOf(c)>>, t), Tagged(<<AckOf(c), Done>>, t),
        Tagged(<<AckOf(c), Pred(c), Done>>, t),
        Tagged(<<AckOf(c), Pred(<<"7">>), Done>>, t),
        Tagged(<<AckOf(c), Pred(<<"?">>), Done>>, t),
        Tagged(<<AckOf(c), Done, Pred(c)>>, t)}

\* In validation mode the device looks at the image shown and announces
\* inference results for it.
Announcements(c, t) ==
  IF ~honest THEN {<<>>}
  ELSE {<<>>, Tagged(<<Ln("inf", c), Ln("inf", c)>>, t),
        Tagged(<<Ln("inf", <<"7">>), Ln("inf", <<"7">>)>>, t),
        Tagged(<<Ln("inf", c), Ln("inf", <<"?">>)>>, t)}

DeviceReceives(answers) == \E ans \in answers : devq' = devq \o ans

\* The device sends the next line of its answer
DeviceRespond ==
  /\ devq # <<>>
  /\ wire' = Append(wire, Head(devq))
  /\ devq' = Tail(devq)
  /\ UNCHANGED <<last_messages, message_received, running, serOpen, emitted, budget, honest>>
  /\ UNCHANGED <<readerVars, ctlVars, callVars, sessVars, histVars>>
  /\ UNCHANGED apartVars

\* ---------------------------------------------------------------- reader thread
\* History: the number of images presented so far, and a received line stamped
\* with it (the stamp is not part of the text the program sees).
Presented == Len(SelectSeq(events, LAMBDA e : e.e = "show"))
Received(l) == [k |-> l.k, a |-> l.a, tag |-> l.tag, at |-> Presented]

\* while self.running: if self.ser.in_waiting: line = readline().decode().strip()
\* A chunk that fails to decode is printed and dropped, an empty line is dropped.
\* a reader whose loop ends when a chunk fails to decode (no try around readline)
read_serial_poll_unguarded ==
  /\ rpc = "loop"
  /\ IF ~running
     THEN /\ rpc' = "exit"
          /\ UNCHANGED <<wire, rline>>
     ELSE /\ wire # <<>>
          /\ wire' = Tail(wire)
          /\ IF ~Decodable(Head(wire))
             THEN rline' = rline /\ rpc' = "exit"
             ELSE IF Text(Head(wire)) # <<>>
             THEN rline' = Received(Head(wire)) /\ rpc' = "load"
             ELSE rline' = rline /\ rpc' = "loop"
  /\ UNCHANGED <<last_messages, message_received, running, serOpen, rstale>>
  /\ UNCHANGED <<devVars, ctlVars, callVars, sessVars, histVars>>
  /\ UNCHANGED apartVars

read_serial_poll ==
  /\ rpc = "loop"
  /\ IF ~running
     THEN /\ rpc' = "exit"
          /\ UNCHANGED <<wire, rline>>
     ELSE /\ wire # <<>>
          /\ wire' = Tail(wire)
          /\ IF Decodable(Head(wire)) /\ Text(Head(wire)) # <<>>
             THEN rline' = Received(Head(wire)) /\ rpc' = "load"
             ELSE rline' = rline /\ rpc' = "loop"
  /\ UNCHANGED <<last_messages, message_received, running, serOpen, rstale>>
  /\ UNCHANGED <<devVars, ctlVars, callVars, sessVars, histVars>>
  /\ UNCHANGED apartVars

\* self.last_messages.append(line), first half: the attribute is read
read_serial_load ==
  /\ rpc = "load"
  /\ rpc' = "append"
  /\ rstale' = FALSE
  /\ UNCHANGED <<uartVars, rline, devVars, ctlVars, callVars, sessVars, histVars>>
  /\ UNCHANGED apartVars

\* self.last_messages.append(line), second half: the list that was read is
\* appended to; if the foreground rebound the attribute meanwhile, the line
\* lands in the discarded list
read_serial_append ==
  /\ rpc = "append"
  /\ rpc' = "set"
  /\ last_messages' = IF rstale THEN last_messages ELSE Append(last_messages, rline)
  /\ UNCHANGED <<message_received, running, serOpen, wire, rline, rstale>>
  /\ UNCHANGED <<devVars, ctlVars, callVars, sessVars, histVars>>
  /\ UNCHANGED apartVars

\* self.message_received.set(); time.sleep(0.01)
read_serial_set ==
  /\ rpc = "set"
  /\ rpc' = "loop"
  /\ message_received' = TRUE
  /\ lastSet' = rline
  /\ UNCHANGED <<last_messages, running, serOpen, wire, rline, rstale>>
  /\ UNCHANGED <<devVars, ctlVars, callVars, sessVars, written, events, matched>>
  /\ UNCHANGED apartVars

Reader == read_serial_poll \/ read_serial_load \/ read_serial_append \/ read_serial_set

\* ---------------------------------------------------------------- control
\* Call sites of main's try block: an exception reaching one runs finally.
MainSites == {"m_after_initial", "m_after_epoch", "m_next_epoch", "m_after_final"}

\* Where an exception e raised by the callee of call site `site` continues
\* a training loop that takes a command timeout as one more failed example
Catches_absorbing(site, e) ==
  CASE site = "rv_infer_ret" /\ e = "TimeoutError" -> "rv_except"
    [] site = "te_wait" /\ e = "TimeoutError" -> "te_for"
    [] site \in MainSites -> "m_finally"
    [] OTHER -> "none"

Catches(site, e) ==
  CASE site = "rv_infer_ret" /\ e = "TimeoutError" -> "rv_except"
    [] site \in MainSites -> "m_finally"
    [] OTHER -> "none"

RECURSIVE Unwind(_, _)
Unwind(st, e) ==
  IF st = <<>> THEN [pc |-> "raised", stack |-> <<>>, exc |-> e]
  ELSE IF Catches(Head(st), e) = "none" THEN Unwind(Tail(st), e)
  ELSE [pc |-> Catches(Head(st), e), stack |-> Tail(st),
        exc |-> IF Head(st) \in MainSites THEN e ELSE "none"]

Raise(e) ==
  LET u == Unwind(stack, e)
  IN  pc' = u.pc /\ stack' = u.stack /\ exc' = u.exc

Return ==
  /\ pc' = IF stack = <<>> THEN "returned" ELSE Head(stack)
  /\ stack' = IF stack = <<>> THEN <<>> ELSE Tail(stack)

Call(entry, site) == pc' = entry /\ stack' = <<site>> \o stack

\* self.last_messages = []  (a new list is bound; a reader that already read
\* the attribute still holds the old one)
ClearLog ==
  /\ last_messages' = <<>>
  /\ rstale' = IF rpc = "append" THEN TRUE ELSE rstale

\* ---------------------------------------------------------------- wait_for_message
FirstMatch(exp, log) ==
  log[CHOOSE i \in 1..Len(log) :
        /\ Contains(exp, Text(log[i]))
        /\ \A j \in 1..(i - 1) : ~Contains(exp, Text(log[j]))]

HasMatch(exp, log) == \E i \in 1..Len(log) : Contains(exp, Text(log[i]))

\* for msg in self.last_messages: if expected_msg in msg: return True
wait_for_message_scan ==
  /\ pc = "wm_scan"
  /\ IF HasMatch(expected, last_messages)
     THEN /\ wmres' = TRUE
          /\ matched' = FirstMatch(expected, last_messages)
          /\ Return
     ELSE /\ pc' = "wm_wait"
          /\ UNCHANGED <<wmres, matched, stack>>
  /\ UNCHANGED <<uartVars, readerVars, devVars, exc, errcmd>>
  /\ UNCHANGED <<cmd, expected, num, results, tail, vres, sessVars, written, events, lastSet>>
  /\ UNCHANGED apartVars

\* a wait on the signal without a timeout: self.message_received.wait()
wait_for_message_wait_blocking ==
  /\ pc = "wm_wait"
  /\ message_received
  /\ pc' = "wm_check"
  /\ message_received' = FALSE
  /\ UNCHANGED <<last_messages, running, serOpen, wire>>
  /\ UNCHANGED <<readerVars, devVars, stack, exc, errcmd, callVars, sessVars, histVars>>
  /\ UNCHANGED apartVars

\* self.message_received.wait(timeout=0.1); self.message_received.clear()
wait_for_message_wait ==
  /\ pc = "wm_wait"
  /\ pc' = "wm_check"
  /\ message_received' = FALSE
  /\ UNCHANGED <<last_messages, running, serOpen, wire>>
  /\ UNCHANGED <<readerVars, devVars, stack, exc, errcmd, callVars, sessVars, histVars>>
  /\ UNCHANGED apartVars

\* while time.time() - start_time < timeout: the deadline has not passed
wait_for_message_again ==
  /\ pc = "wm_check"
  /\ pc' = "wm_scan"
  /\ UNCHANGED <<uartVars, readerVars, devVars, stack, exc, errcmd>>
  /\ UNCHANGED <<callVars, sessVars, histVars>>
  /\ UNCHANGED apartVars

\* while time.time() - start_time < timeout: the deadline has passed; return False
wait_for_message_timeout ==
  /\ pc = "wm_check"
  /\ wmres' = FALSE
  /\ Return
  /\ UNCHANGED <<uartVars, readerVars, devVars, exc, errcmd>>
  /\ UNCHANGED <<cmd, expected, num, results, tail, vres, sessVars, histVars>>
  /\ UNCHANGED apartVars

\* ---------------------------------------------------------------- send_command
\* self.last_messages = []
send_command_clear_log ==
  /\ pc = "sc_start"
  /\ pc' = "sc_clear_event"
  /\ ClearLog
  /\ UNCHANGED <<message_received, running, serOpen, wire, rpc, rline>>
  /\ UNCHANGED <<devVars, stack, exc, errcmd, callVars, sessVars, histVars>>
  /\ UNCHANGED apartVars

\* self.message_received.clear()
send_command_clear_event ==
  /\ pc = "sc_clear_event"
  /\ pc' = "sc_write"
  /\ message_received' = FALSE
  /\ UNCHANGED <<last_messages, running, serOpen, wire>>
  /\ UNCHANGED <<readerVars, devVars, stack, exc, errcmd, callVars, sessVars, histVars>>
  /\ UNCHANGED apartVars

\* self.ser.write(cmd.encode()); self.wait_for_message(f"COMMAND RECEIVED: {cmd}")
send_command_write ==
  /\ pc = "sc_write"
  /\ written' = Append(written, cmd)
  /\ events' = Append(events, [e |-> "cmd", c |-> cmd])
  /\ expected' = CmdReceived \o cmd
  /\ Call("wm_scan", "sc_waited")
  /\ DeviceReceives(Responses(cmd, Len(written) + 1))
  /\ UNCHANGED <<uartVars, readerVars, emitted, budget, honest, exc, errcmd>>
  /\ UNCHANGED <<cmd, wmres, num, results, tail, vres, sessVars, matched, lastSet>>
  /\ UNCHANGED apartVars

\* if not ...: raise TimeoutError(f"Failed to receive command: {cmd}")
send_command_waited ==
  /\ pc = "sc_waited"
  /\ IF wmres
     THEN /\ pc' = "sc_settle"
          /\ UNCHANGED <<stack, exc, errcmd>>
     ELSE /\ Raise("TimeoutError")
          /\ errcmd' = cmd
  /\ UNCHANGED <<uartVars, readerVars, devVars, callVars, sessVars, histVars>>
  /\ UNCHANGED apartVars

\* a send_command that clears the log once more when the command was acknowledged
send_command_settle_clearing ==
  /\ pc = "sc_settle"
  /\ Return
  /\ ClearLog
  /\ UNCHANGED <<message_received, running, serOpen, wire, rpc, rline>>
  /\ UNCHANGED <<devVars, exc, errcmd, callVars, sessVars, histVars>>
  /\ UNCHANGED apartVars

\* time.sleep(0.1), then the call returns
send_command_settle ==
  /\ pc = "sc_settle"
  /\ Return
  /\ UNCHANGED <<uartVars, readerVars, devVars, exc, errcmd, callVars, sessVars, histVars>>
  /\ UNCHANGED apartVars

CommandChannel ==
  \/ wait_for_message_scan \/ wait_for_message_wait
  \/ wait_for_message_again \/ wait_for_message_timeout
  \/ send_command_clear_log \/ send_command_clear_event \/ send_command_write
  \/ send_command_waited \/ send_command_settle

\* ---------------------------------------------------------------- wait_for_consecutive_inference
\* a scan that looks at the newest message only
LastK_newest_only(s, k) == IF s = <<>> THEN s ELSE <<s[Len(s)]>>

\* s[-k:]
LastK(s, k) == IF Len(s) <= k THEN s ELSE SubSeq(s, Len(s) - k + 1, Len(s))

\* a vote over the whole window instead of its last n entries
Decides_whole_window(res, n) ==
  /\ Len(res) >= n
  /\ Cardinality({res[i] : i \in 1..Len(res)}) = 1

\* len(results) >= num_consecutive and len(set(results[-num_consecutive:])) == 1
Decides(res, n) ==
  /\ Len(res) >= n
  /\ Cardinality({res[i] : i \in (Len(res) - n + 1)..Len(res)}) = 1

\* start_time = time.time(); results = []; the first deadline test passes
wait_for_consecutive_inference_start ==
  /\ pc = "wci_start"
  /\ pc' = "wci_wait"
  /\ results' = <<>>
  /\ UNCHANGED <<uartVars, readerVars, devVars, stack, exc, errcmd>>
  /\ UNCHANGED <<cmd, expected, wmres, num, tail, vres, sessVars, histVars>>
  /\ UNCHANGED apartVars

\* while time.time() - start_time < timeout: the deadline has not passed
wait_for_consecutive_inference_again ==
  /\ pc = "wci_check"
  /\ pc' = "wci_wait"
  /\ UNCHANGED <<uartVars, readerVars, devVars, stack, exc, errcmd>>
  /\ UNCHANGED <<callVars, sessVars, histVars>>
  /\ UNCHANGED apartVars

\* the deadline has passed: raise TimeoutError("Failed to get consecutive ...")
wait_for_consecutive_inference_timeout ==
  /\ pc = "wci_check"
  /\ Raise("TimeoutError")
  /\ events' = Append(events, [e |-> "timeout"])
  /\ UNCHANGED <<uartVars, readerVars, devVars, errcmd, callVars, sessVars>>
  /\ UNCHANGED <<written, matched, lastSet>>
  /\ UNCHANGED apartVars

\* if self.message_received.wait(timeout=0.1):
wait_for_consecutive_inference_wait ==
  /\ pc = "wci_wait"
  /\ pc' = IF message_received THEN "wci_clear" ELSE "wci_check"
  /\ UNCHANGED <<uartVars, readerVars, devVars, stack, exc, errcmd>>
  /\ UNCHANGED <<callVars, sessVars, histVars>>
  /\ UNCHANGED apartVars

\* self.message_received.clear()
wait_for_consecutive_inference_clear ==
  /\ pc = "wci_clear"
  /\ pc' = "wci_scan"
  /\ message_received' = FALSE
  /\ UNCHANGED <<last_messages, running, serOpen, wire>>
  /\ UNCHANGED <<readerVars, devVars, stack, exc, errcmd, callVars, sessVars, histVars>>
  /\ UNCHANGED apartVars

\* self.last_messages[-5:]: the tail of the log is copied
wait_for_consecutive_inference_scan ==
  /\ pc = "wci_scan"
  /\ pc' = "wci_for"
  /\ tail' = LastK(last_messages, 5)
  /\ UNCHANGED <<uartVars, readerVars, devVars, stack, exc, errcmd>>
  /\ UNCHANGED <<cmd, expected, wmres, num, results, vres, sessVars, histVars>>
  /\ UNCHANGED apartVars

\* for msg in <the copy>: one iteration of the loop body; a line whose integer
\* does not parse is skipped (except ValueError: continue)
wait_for_consecutive_inference_for ==
  /\ pc = "wci_for"
  /\ IF tail = <<>>
     THEN /\ pc' = "wci_check"
          /\ UNCHANGED <<tail, results, vres, stack, events>>
     ELSE /\ tail' = Tail(tail)
          /\ LET v == InferenceVote[Bare(Head(tail))]
                 r2 == Append(results, v.val)
             IN  IF v.ok
                 THEN /\ results' = r2
                      /\ IF Decides(r2, num)
                         THEN /\ vres' = r2[Len(r2)]
                              /\ events' = Append(events, [e |-> "decided", cls |-> r2[Len(r2)]])
                              /\ Return
                         ELSE UNCHANGED <<vres, pc, stack, events>>
                 ELSE UNCHANGED <<results, vres, pc, stack, events>>
  /\ UNCHANGED <<uartVars, readerVars, devVars, exc, errcmd>>
  /\ UNCHANGED <<cmd, expected, wmres, num, sessVars, written, matched, lastSet>>
  /\ UNCHANGED apartVars

InferenceVoter ==
  \/ wait_for_consecutive_inference_start \/ wait_for_consecutive_inference_again
  \/ wait_for_consecutive_inference_timeout
  \/ wait_for_consecutive_inference_wait \/ wait_for_consecutive_inference_clear
  \/ wait_for_consecutive_inference_scan \/ wait_for_consecutive_inference_for


\* ---------------------------------------------------------------- run_validation
NoMetrics == [c \in {} |-> [correct |-> 0, total |-> 0]]

\* if true_class not in class_metrics: class_metrics[true_class] = {...}
WithClass(cm, c) ==
  IF c \in DOMAIN cm THEN cm
  ELSE [k \in DOMAIN cm \cup {c} |->
          IF k = c THEN [correct |-> 0, total |-> 0] ELSE cm[k]]

\* class_metrics[c]["total"] += 1, and ["correct"] += 1 when right
Counted(cm, c, right) ==
  [cm EXCEPT ![c] = [correct |-> @.correct + (IF right THEN 1 ELSE 0),
                     total |-> @.total + 1]]

Show(ph, i) == [e |-> "show", ph |-> ph, ep |-> epoch, i |-> i]

\* uart.send_command("v")
run_validation_start ==
  /\ pc = "rv_start"
  /\ cmd' = <<"v">>
  /\ Call("sc_start", "rv_init")
  /\ UNCHANGED <<uartVars, readerVars, devVars, exc, errcmd, sessVars, histVars>>
  /\ UNCHANGED <<expected, wmres, num, results, tail, vres>>
  /\ UNCHANGED apartVars

\* class_metrics = {}; correct = 0; total = 0
run_validation_init ==
  /\ pc = "rv_init"
  /\ vm' = [correct |-> 0, total |-> 0, cm |-> NoMetrics]
  /\ idx' = 0
  /\ pc' = "rv_for"
  /\ UNCHANGED <<uartVars, readerVars, devVars, stack, exc, errcmd, callVars, histVars>>
  /\ UNCHANGED <<epochs, train_data, val_data, epoch, tm, rc, todo>>
  /\ UNCHANGED apartVars

\* for idx, (image_path, true_class) in enumerate(val_data)
run_validation_for ==
  /\ pc = "rv_for"
  /\ IF idx < Len(val_data)
     THEN /\ idx' = idx + 1
          /\ vm' = [vm EXCEPT !.cm = WithClass(@, val_data[idx + 1])]
          /\ pc' = "rv_clear"
     ELSE /\ pc' = "rv_end"
          /\ UNCHANGED <<idx, vm>>
  /\ UNCHANGED <<uartVars, readerVars, devVars, stack, exc, errcmd, callVars, histVars>>
  /\ UNCHANGED <<epochs, train_data, val_data, epoch, tm, rc, todo>>
  /\ UNCHANGED apartVars

\* uart.last_messages = []
run_validation_clear ==
  /\ pc = "rv_clear"
  /\ ClearLog
  /\ pc' = "rv_show"
  /\ UNCHANGED <<message_received, running, serOpen, wire, rpc, rline, devVars>>
  /\ UNCHANGED <<stack, exc, errcmd, callVars, sessVars, histVars>>
  /\ UNCHANGED apartVars

\* display_image(image_path, delay=1.0); uart.wait_for_consecutive_inference(3)
run_validation_show ==
  /\ pc = "rv_show"
  /\ events' = Append(events, Show("val", idx))
  /\ DeviceReceives(Announcements(Str(val_data[idx]), Len(written)))
  /\ num' = 3
  /\ Call("wci_start", "rv_infer_ret")
  /\ UNCHANGED <<uartVars, readerVars, emitted, budget, honest, exc, errcmd, sessVars>>
  /\ UNCHANGED <<cmd, expected, wmres, results, tail, vres, written, matched, lastSet>>
  /\ UNCHANGED apartVars

\* is_correct = predicted_class == true_class; correct += is_correct; total += 1
run_validation_count ==
  /\ pc = "rv_infer_ret"
  /\ LET right == vres = val_data[idx]
     IN  vm' = [correct |-> vm.correct + (IF right THEN 1 ELSE 0),
                total |-> vm.total + 1,
                cm |-> Counted(vm.cm, val_data[idx], right)]
  /\ pc' = "rv_for"
  /\ UNCHANGED <<uartVars, readerVars, devVars, stack, exc, errcmd, callVars, histVars>>
  /\ UNCHANGED <<epochs, train_data, val_data, epoch, idx, tm, rc, todo>>
  /\ UNCHANGED apartVars

\* a handler that counts the example that timed out
run_validation_except_counting ==
  /\ pc = "rv_except"
  /\ vm' = [vm EXCEPT !.total = @ + 1]
  /\ pc' = "rv_for"
  /\ UNCHANGED <<uartVars, readerVars, devVars, stack, exc, errcmd, callVars, histVars>>
  /\ UNCHANGED <<epochs, train_data, val_data, epoch, idx, tm, rc, todo>>
  /\ UNCHANGED apartVars

\* except TimeoutError: print(...)
run_validation_except ==
  /\ pc = "rv_except"
  /\ pc' = "rv_for"
  /\ UNCHANGED <<uartVars, readerVars, devVars, stack, exc, errcmd, callVars, sessVars, histVars>>
  /\ UNCHANGED apartVars

\* final_accuracy = correct / total if total > 0 else 0; return
run_validation_end ==
  /\ pc = "rv_end"
  /\ Return
  /\ UNCHANGED <<uartVars, readerVars, devVars, exc, errcmd, callVars, sessVars, histVars>>
  /\ UNCHANGED apartVars

Validation ==
  \/ run_validation_start \/ run_validation_init \/ run_validation_for
  \/ run_validation_clear \/ run_validation_show \/ run_validation_count
  \/ run_validation_except \/ run_validation_end

\* ---------------------------------------------------------------- run_training_epoch
NoTraining == [completed |-> 0, failed |-> 0, correct |-> 0, cm |-> NoMetrics]

\* predicted_class of lines 355-362: the first line of the log that carries
\* the marker and whose number parses; ok is FALSE when there is none
RECURSIVE FirstPrediction(_)
FirstPrediction(log) ==
  IF log = <<>> THEN [ok |-> FALSE, val |-> 0]
  ELSE IF TrainingVote[Bare(Head(log))].ok THEN TrainingVote[Bare(Head(log))]
  ELSE FirstPrediction(Tail(log))

RECURSIVE SumOver(_, _)
SumOver(cm, field) ==
  IF DOMAIN cm = {} THEN 0
  ELSE LET c == CHOOSE k \in DOMAIN cm : TRUE
       IN  cm[c][field] + SumOver([k \in DOMAIN cm \ {c} |-> cm[k]], field)

\* uart.send_command("t")
run_training_epoch_start ==
  /\ pc = "te_start"
  /\ cmd' = <<"t">>
  /\ Call("sc_start", "te_init")
  /\ UNCHANGED <<uartVars, readerVars, devVars, exc, errcmd, sessVars, histVars>>
  /\ UNCHANGED <<expected, wmres, num, results, tail, vres>>
  /\ UNCHANGED apartVars

\* metrics = {...}
run_training_epoch_init ==
  /\ pc = "te_init"
  /\ tm' = NoTraining
  /\ idx' = 0
  /\ pc' = "te_for"
  /\ UNCHANGED <<uartVars, readerVars, devVars, stack, exc, errcmd, callVars, histVars>>
  /\ UNCHANGED <<epochs, train_data, val_data, epoch, vm, rc, todo>>
  /\ UNCHANGED apartVars

\* for idx, (image_path, true_class) in enumerate(train_data); after the loop,
\* total_accuracy = sum(correct) / sum(total) and the summary's
\* correct_predictions / completed_trainings divide without a guard
run_training_epoch_for ==
  /\ pc = "te_for"
  /\ IF idx < Len(train_data)
     THEN /\ idx' = idx + 1
          /\ tm' = [tm EXCEPT !.cm = WithClass(@, train_data[idx + 1])]
          /\ pc' = "te_show"
          /\ UNCHANGED <<stack, exc>>
     ELSE /\ IF SumOver(tm.cm, "total") = 0 \/ tm.completed = 0
             THEN Raise("ZeroDivisionError")
             ELSE Return /\ UNCHANGED exc
          /\ UNCHANGED <<idx, tm>>
  /\ UNCHANGED <<uartVars, readerVars, devVars, errcmd, callVars, histVars>>
  /\ UNCHANGED <<epochs, train_data, val_data, epoch, vm, rc, todo>>
  /\ UNCHANGED apartVars

\* display_image(image_path); uart.send_command(str(true_class))
run_training_epoch_show ==
  /\ pc = "te_show"
  /\ events' = Append(events, Show("train", idx))
  /\ cmd' = Str(train_data[idx])
  /\ Call("sc_start", "te_wait")
  /\ UNCHANGED <<uartVars, readerVars, devVars, exc, errcmd, sessVars>>
  /\ UNCHANGED <<expected, wmres, num, results, tail, vres, written, matched, lastSet>>
  /\ UNCHANGED apartVars

\* uart.wait_for_message("TRAINING DONE", timeout=5.0)
run_training_epoch_wait ==
  /\ pc = "te_wait"
  /\ expected' = TrainingDone
  /\ Call("wm_scan", "te_waited")
  /\ UNCHANGED <<uartVars, readerVars, devVars, exc, errcmd, sessVars, histVars>>
  /\ UNCHANGED <<cmd, wmres, num, results, tail, vres>>
  /\ UNCHANGED apartVars

\* a loop that presents an example again when its first training failed
run_training_epoch_record_retry ==
  /\ pc = "te_waited"
  /\ LET p == FirstPrediction(last_messages)
         c == train_data[idx]
     IN  IF wmres /\ p.ok
         THEN /\ tm' = [completed |-> tm.completed + 1,
                        failed |-> tm.failed,
                        correct |-> tm.correct + (IF p.val = c THEN 1 ELSE 0),
                        cm |-> Counted(tm.cm, c, p.val = c)]
              /\ idx' = idx
         ELSE /\ tm' = [tm EXCEPT !.failed = @ + 1]
              /\ idx' = IF tm.failed = 0 THEN idx - 1 ELSE idx
  /\ pc' = "te_for"
  /\ UNCHANGED <<uartVars, readerVars, devVars, stack, exc, errcmd, callVars, histVars>>
  /\ UNCHANGED <<epochs, train_data, val_data, epoch, vm, rc, todo>>
  /\ UNCHANGED apartVars

\* a loop that counts a completion without a prediction neither as completed
\* nor as failed
run_training_epoch_record_uncounted ==
  /\ pc = "te_waited"
  /\ LET p == FirstPrediction(last_messages)
         c == train_data[idx]
     IN  IF wmres /\ p.ok
         THEN tm' = [completed |-> tm.completed + 1,
                     failed |-> tm.failed,
                     correct |-> tm.correct + (IF p.val = c THEN 1 ELSE 0),
                     cm |-> Counted(tm.cm, c, p.val = c)]
         ELSE IF wmres THEN tm' = tm
         ELSE tm' = [tm EXCEPT !.failed = @ + 1]
  /\ pc' = "te_for"
  /\ UNCHANGED <<uartVars, readerVars, devVars, stack, exc, errcmd, callVars, histVars>>
  /\ UNCHANGED <<epochs, train_data, val_data, epoch, idx, vm, rc, todo>>
  /\ UNCHANGED apartVars

\* lines 353-385: the outcome of one example
run_training_epoch_record ==
  /\ pc = "te_waited"
  /\ LET p == FirstPrediction(last_messages)
         c == train_data[idx]
     IN  IF wmres /\ p.ok
         THEN tm' = [completed |-> tm.completed + 1,
                     failed |-> tm.failed,
                     correct |-> tm.correct + (IF p.val = c THEN 1 ELSE 0),
                     cm |-> Counted(tm.cm, c, p.val = c)]
         ELSE tm' = [tm EXCEPT !.failed = @ + 1]
  /\ pc' = "te_for"
  /\ UNCHANGED <<uartVars, readerVars, devVars, stack, exc, errcmd, callVars, histVars>>
  /\ UNCHANGED <<epochs, train_data, val_data, epoch, idx, vm, rc, todo>>
  /\ UNCHANGED apartVars

Training ==
  \/ run_training_epoch_start \/ run_training_epoch_init \/ run_training_epoch_for
  \/ run_training_epoch_show \/ run_training_epoch_wait \/ run_training_epoch_record

\* ---------------------------------------------------------------- close, main
\* self.running = False
close_stop ==
  /\ pc = "m_finally"
  /\ running' = FALSE
  /\ pc' = "close_join"
  /\ UNCHANGED <<last_messages, message_received, serOpen, wire>>
  /\ UNCHANGED <<readerVars, devVars, stack, exc, errcmd, callVars, sessVars, histVars>>
  /\ UNCHANGED apartVars

\* a close that does not wait for the reader thread
close_without_join ==
  /\ pc = "close_join"
  /\ serOpen' = FALSE
  /\ pc' = "m_ret"
  /\ UNCHANGED <<last_messages, message_received, running, wire>>
  /\ UNCHANGED <<readerVars, devVars, stack, exc, errcmd, callVars, sessVars, histVars>>
  /\ UNCHANGED apartVars

\* if self.thread.is_alive(): self.thread.join(); self.ser.close()
close_join ==
  /\ pc = "close_join"
  /\ rpc = "exit"
  /\ serOpen' = FALSE
  /\ pc' = "m_ret"
  /\ UNCHANGED <<last_messages, message_received, running, wire>>
  /\ UNCHANGED <<readerVars, devVars, stack, exc, errcmd, callVars, sessVars, histVars>>
  /\ UNCHANGED apartVars

\* utils.find_stm32_port, lines 17-27: the first device listed whose name
\* contains "usbmodem", None when there is none (device names are modelled
\* by the kind of device)
find_stm32_port ==
  IF \E i \in 1..Len(comports) : comports[i] = "usbmodem"
    THEN comports[CHOOSE i \in 1..Len(comports) :
                    /\ comports[i] = "usbmodem"
                    /\ \A j \in 1..(i - 1) : comports[j] # "usbmodem"]
    ELSE "None"

\* A constructor that goes on without a port
UARTHandler_init_unchecked ==
  /\ pc = "m_uart"
  /\ serOpen' = TRUE
  /\ last_messages' = <<>>
  /\ message_received' = FALSE
  /\ running' = TRUE
  /\ rpc' = "loop"
  /\ pc' = "m_start"
  /\ UNCHANGED <<wire, rline, rstale, devVars, stack, exc, errcmd, callVars, sessVars, histVars>>
  /\ UNCHANGED apartVars

\* uart = UARTHandler() of main, line 468, and UARTHandler.__init__, lines
\* 87-103: the call is outside the inner try and inside the outer one, so
\* its RuntimeError goes to the except clause of line 526
UARTHandler_init ==
  /\ pc = "m_uart"
  /\ IF find_stm32_port = "None"
       THEN /\ exc' = "RuntimeError"
            /\ pc' = "m_ret"
            /\ UNCHANGED <<uartVars, rpc>>
       ELSE /\ serOpen' = TRUE
            /\ last_messages' = <<>>
            /\ message_received' = FALSE
            /\ running' = TRUE
            /\ rpc' = "loop"
            /\ pc' = "m_start"
            /\ UNCHANGED <<wire, exc>>
  /\ UNCHANGED <<rline, rstale, devVars, stack, errcmd, callVars, sessVars, histVars>>
  /\ UNCHANGED apartVars

\* run_validation(uart, val_data, phase="Initial")
main_initial ==
  /\ pc = "m_start"
  /\ Call("rv_start", "m_after_initial")
  /\ UNCHANGED <<uartVars, readerVars, devVars, exc, errcmd, callVars, sessVars, histVars>>
  /\ UNCHANGED apartVars

\* for epoch in range(epochs): run_training_epoch(...); after the loop,
\* run_validation(uart, val_data, phase="Final")
main_for ==
  /\ pc \in {"m_after_initial", "m_next_epoch"}
  /\ LET e == IF pc = "m_after_initial" THEN 0 ELSE epoch + 1
     IN  /\ epoch' = e
         /\ IF e < epochs
            THEN Call("te_start", "m_after_epoch")
            ELSE Call("rv_start", "m_after_final")
  /\ UNCHANGED <<uartVars, readerVars, devVars, exc, errcmd, callVars, histVars>>
  /\ UNCHANGED <<epochs, train_data, val_data, idx, tm, vm, rc, todo>>
  /\ UNCHANGED apartVars

\* if epoch != epochs - 1: run_validation(..., phase=f"Epoch {epoch+1}")
main_between ==
  /\ pc = "m_after_epoch"
  /\ IF epoch # epochs - 1
     THEN Call("rv_start", "m_next_epoch")
     ELSE pc' = "m_next_epoch" /\ UNCHANGED stack
  /\ UNCHANGED <<uartVars, readerVars, devVars, exc, errcmd, callVars, sessVars, histVars>>
  /\ UNCHANGED apartVars

\* the try block is left normally
main_finally ==
  /\ pc = "m_after_final"
  /\ pc' = "m_finally"
  /\ UNCHANGED <<uartVars, readerVars, devVars, stack, exc, errcmd, callVars, sessVars, histVars>>
  /\ UNCHANGED apartVars

\* except Exception: return 1; otherwise return 0
main_return ==
  /\ pc = "m_ret"
  /\ rc' = IF exc = "none" THEN 0 ELSE 1
  /\ pc' = "main_done"
  /\ UNCHANGED <<uartVars, readerVars, devVars, stack, exc, errcmd, callVars, histVars>>
  /\ UNCHANGED <<epochs, train_data, val_data, epoch, idx, tm, vm, todo>>
  /\ UNCHANGED apartVars

Main ==
  \/ main_initial \/ main_for \/ main_between \/ main_finally
  \/ close_stop \/ close_join \/ main_return

\* ---------------------------------------------------------------- MetricsTracker
\* range(num_classes)
TrackIds == 0..(TrackClasses - 1)

ZeroCounts == [true_positives |-> 0, false_positives |-> 0, total |-> 0]

\* the dictionary built in __init__ and in reset_metrics (run_time stays 0)
FreshMetrics ==
  [true_positives |-> 0, total |-> 0, false_positives |-> 0,
   per |-> [c \in TrackIds |-> ZeroCounts]]

\* class ids passed as predicted_class: those of the catalog and one outside it
Reported == TrackIds \cup {7}

\* MetricsTracker(num_classes, run_name): mode "val", epoch 0, step 0, no file yet
InitTracker ==
  /\ metrics = FreshMetrics
  /\ mt_mode = "val"
  /\ mt_epoch = 0
  /\ mt_step = 0
  /\ files = [n \in {} |-> 0]
  /\ acc = [num |-> 0, den |-> 1]
  /\ mt_err = "none"
  /\ mt_call = [op |-> "init"]
  /\ mt_ops = 0

\* one more call on the tracker; the session's state is not the tracker's
Apart ==
  /\ mt_ops < MaxOps
  /\ mt_ops' = mt_ops + 1
  /\ UNCHANGED <<uartVars, readerVars, devVars, ctlVars, callVars, sessVars, histVars, splitVars, fileVars, comports>>

\* a val_mode that starts a new epoch like train_mode
val_mode_counting_epoch ==
  /\ Apart
  /\ mt_mode' = "val"
  /\ mt_step' = 0
  /\ mt_epoch' = mt_epoch + 1
  /\ metrics' = FreshMetrics
  /\ mt_err' = "none"
  /\ mt_call' = [op |-> "val_mode"]
  /\ UNCHANGED <<files, acc>>

val_mode ==
  /\ Apart
  /\ mt_mode' = "val"
  /\ mt_step' = 0
  /\ metrics' = FreshMetrics
  /\ mt_err' = "none"
  /\ mt_call' = [op |-> "val_mode"]
  /\ UNCHANGED <<mt_epoch, files, acc>>

train_mode ==
  /\ Apart
  /\ mt_mode' = "train"
  /\ mt_step' = 0
  /\ mt_epoch' = mt_epoch + 1
  /\ metrics' = FreshMetrics
  /\ mt_err' = "none"
  /\ mt_call' = [op |-> "train_mode"]
  /\ UNCHANGED <<files, acc>>

\* an update that counts a miss in the aggregate false positives too
update_counting_aggregate_false_positive ==
  /\ Apart
  /\ \E predicted_class \in Reported, true_class \in TrackIds :
       LET m1 == [metrics EXCEPT !.total = @ + 1, !.per[true_class].total = @ + 1]
       IN  /\ mt_call' = [op |-> "update", predicted |-> predicted_class, true |-> true_class]
           /\ IF predicted_class = true_class
              THEN /\ metrics' = [m1 EXCEPT !.per[true_class].true_positives = @ + 1,
                                            !.true_positives = @ + 1]
                   /\ mt_step' = mt_step + 1
                   /\ mt_err' = "none"
              ELSE IF predicted_class \in DOMAIN metrics.per
              THEN /\ metrics' = [m1 EXCEPT !.per[predicted_class].false_positives = @ + 1,
                                            !.false_positives = @ + 1]
                   /\ mt_step' = mt_step + 1
                   /\ mt_err' = "none"
              ELSE /\ metrics' = m1
                   /\ mt_step' = mt_step
                   /\ mt_err' = "KeyError"
  /\ UNCHANGED <<mt_mode, mt_epoch, files, acc>>

\* an update that counts the class total on a hit only
update_class_total_on_hit ==
  /\ Apart
  /\ \E predicted_class \in Reported, true_class \in TrackIds :
       LET m1 == [metrics EXCEPT !.total = @ + 1,
                                 !.per[true_class].total =
                                    IF predicted_class = true_class THEN @ + 1 ELSE @]
       IN  /\ mt_call' = [op |-> "update", predicted |-> predicted_class, true |-> true_class]
           /\ IF predicted_class = true_class
              THEN /\ metrics' = [m1 EXCEPT !.per[true_class].true_positives = @ + 1,
                                            !.true_positives = @ + 1]
                   /\ mt_step' = mt_step + 1
                   /\ mt_err' = "none"
              ELSE IF predicted_class \in DOMAIN metrics.per
              THEN /\ metrics' = [m1 EXCEPT !.per[predicted_class].false_positives = @ + 1]
                   /\ mt_step' = mt_step + 1
                   /\ mt_err' = "none"
              ELSE /\ metrics' = m1
                   /\ mt_step' = mt_step
                   /\ mt_err' = "KeyError"
  /\ UNCHANGED <<mt_mode, mt_epoch, files, acc>>

\* an update that advances the step on a hit only
update_step_on_hit ==
  /\ Apart
  /\ \E predicted_class \in Reported, true_class \in TrackIds :
       LET m1 == [metrics EXCEPT !.total = @ + 1, !.per[true_class].total = @ + 1]
       IN  /\ mt_call' = [op |-> "update", predicted |-> predicted_class, true |-> true_class]
           /\ IF predicted_class = true_class
              THEN /\ metrics' = [m1 EXCEPT !.per[true_class].true_positives = @ + 1,
                                            !.true_positives = @ + 1]
                   /\ mt_step' = mt_step + 1
                   /\ mt_err' = "none"
              ELSE IF predicted_class \in DOMAIN metrics.per
              THEN /\ metrics' = [m1 EXCEPT !.per[predicted_class].false_positives = @ + 1]
                   /\ mt_step' = mt_step
                   /\ mt_err' = "none"
              ELSE /\ metrics' = m1
                   /\ mt_step' = mt_step
                   /\ mt_err' = "KeyError"
  /\ UNCHANGED <<mt_mode, mt_epoch, files, acc>>

\* update(predicted_class, true_class): the two totals are incremented first;
\* self.metrics[predicted_class] raises KeyError for an id outside the
\* dictionary, after which the step is not incremented
update ==
  /\ Apart
  /\ \E predicted_class \in Reported, true_class \in TrackIds :
       LET m1 == [metrics EXCEPT !.total = @ + 1, !.per[true_class].total = @ + 1]
       IN  /\ mt_call' = [op |-> "update", predicted |-> predicted_class, true |-> true_class]
           /\ IF predicted_class = true_class
              THEN /\ metrics' = [m1 EXCEPT !.per[true_class].true_positives = @ + 1,
                                            !.true_positives = @ + 1]
                   /\ mt_step' = mt_step + 1
                   /\ mt_err' = "none"
              ELSE IF predicted_class \in DOMAIN metrics.per
              THEN /\ metrics' = [m1 EXCEPT !.per[predicted_class].false_positives = @ + 1]
                   /\ mt_step' = mt_step + 1
                   /\ mt_err' = "none"
              ELSE /\ metrics' = m1
                   /\ mt_step' = mt_step
                   /\ mt_err' = "KeyError"
  /\ UNCHANGED <<mt_mode, mt_epoch, files, acc>>

\* the file name f"{mode}_{model}_{epoch}_{step}.json" (one model per run)
SavePath == <<mt_mode, mt_epoch, mt_step>>

\* a save that starts the counts afresh
save_metrics_then_reset ==
  /\ Apart
  /\ files' = [n \in DOMAIN files \cup {SavePath} |->
                 IF n = SavePath
                 THEN [metrics |-> metrics, epoch |-> mt_epoch, step |-> mt_step, mode |-> mt_mode]
                 ELSE files[n]]
  /\ mt_err' = "none"
  /\ mt_call' = [op |-> "save_metrics"]
  /\ metrics' = FreshMetrics
  /\ UNCHANGED <<mt_mode, mt_epoch, mt_step, acc>>

\* save_metrics(): open(save_path, "w") replaces a file of the same name
save_metrics ==
  /\ Apart
  /\ files' = [n \in DOMAIN files \cup {SavePath} |->
                 IF n = SavePath
                 THEN [metrics |-> metrics, epoch |-> mt_epoch, step |-> mt_step, mode |-> mt_mode]
                 ELSE files[n]]
  /\ mt_err' = "none"
  /\ mt_call' = [op |-> "save_metrics"]
  /\ UNCHANGED <<metrics, mt_mode, mt_epoch, mt_step, acc>>

Max(a, b) == IF a >= b THEN a ELSE b

\* a test "if class_id:" in place of "if class_id is not None:"
Accuracy_truthy(given, class_id, m) ==
  IF given /\ class_id # 0
  THEN [num |-> m.per[class_id].true_positives, den |-> Max(m.per[class_id].total, 1)]
  ELSE [num |-> SumOver(m.per, "true_positives"), den |-> Max(m.total, 1)]

\* the quotient get_accuracy returns, as numerator and denominator
Accuracy(given, class_id, m) ==
  IF given
  THEN [num |-> m.per[class_id].true_positives, den |-> Max(m.per[class_id].total, 1)]
  ELSE [num |-> SumOver(m.per, "true_positives"), den |-> Max(m.total, 1)]

\* get_accuracy(class_id=None)
get_accuracy ==
  /\ Apart
  /\ \E given \in BOOLEAN, class_id \in TrackIds :
       /\ (~given => class_id = 0)
       /\ acc' = Accuracy(given, class_id, metrics)
       /\ mt_call' = [op |-> "get_accuracy", given |-> given, class_id |-> class_id]
  /\ mt_err' = "none"
  /\ UNCHANGED <<metrics, mt_mode, mt_epoch, mt_step, files>>

Tracker == val_mode \/ train_mode \/ update \/ save_metrics \/ get_accuracy

\* ---------------------------------------------------------------- sequential_split_dataset
\* The classes of the dataset, class_to_idx of line 210
SplitIds == 0 .. (SplitClasses - 1)

\* The numbers of images a class directory may hold
ImageCounts == {0, 1, 30, 50, 80, 90}

\* random_seed = None, and the seeds a caller may give
NoSeed == -1
Seeds == {NoSeed, 0, 1}

\* The split methods main knows: "random", and anything else is sequential
Methods == {"random", "sequential"}

\* The numbers of images of a class, and the limits, of the runs compared
RunCounts == {0, 2, 3}
RunLimits == {0, 2}

\* The limits a caller may give: 0 stands for None and for 0, which line 217
\* treats alike
Limits == {0, 40}

\* The significand of the double 0.7 = Mant * 2^-53, in three limbs of 20 bits
\* (0x16666666666666)
Mant0 == 419430
Mant1 == 419430
Mant2 == 5734

RECURSIVE Pow2(_)
Pow2(k) == IF k = 0 THEN 1 ELSE 2 * Pow2(k - 1)

RECURSIVE BitLen(_)
BitLen(v) == IF v = 0 THEN 0 ELSE 1 + BitLen(v \div 2)

\* int(n * 0.7) of line 235: the exact product n * Mant is rounded to 53
\* significant bits, ties to even, and the double is truncated to an integer
IntTimesTrainSplit(n) ==
  IF n = 0 THEN 0 ELSE
  LET B == Pow2(20)
      a0 == n * Mant0
      p0 == a0 % B
      a1 == n * Mant1 + a0 \div B
      p1 == a1 % B
      p2 == n * Mant2 + a1 \div B
      s == 40 + BitLen(p2) - 53
      r == p0 % Pow2(s)
      half == IF s = 0 THEN 0 ELSE Pow2(s - 1)
      odd == (p0 \div Pow2(s)) % 2 = 1
      up == s > 0 /\ (r > half \/ (r = half /\ odd))
      q0 == p0 - r + (IF up THEN Pow2(s) ELSE 0)
      q1 == p1 + q0 \div B
      q2 == p2 + q1 \div B
  IN q2 \div Pow2(13)

\* len(images) of a class after lines 215-218
Loaded(c) ==
  IF max_examples_per_class # 0 /\ images[c] > max_examples_per_class
    THEN max_examples_per_class
    ELSE images[c]

\* min_labels_per_class after the loop of lines 214-221
min_labels_per_class ==
  CHOOSE m \in {Loaded(c) : c \in SplitIds} \cup {1000000} :
    \A c \in SplitIds : m <= Loaded(c) /\ m <= 1000000

\* The generator of the random module, which random.seed sets and
\* random.shuffle draws from: its states, the number below n it gives in a
\* state, and the state after a draw
RngStates == 0 .. (RngMod - 1)
Randbelow(r, n) == r % n
Advance(r) == (3 * r + 1) % RngMod

\* random.shuffle(x) from generator state r: the permutation of x the
\* generator's draws choose, here the rotation by the number drawn, and the
\* state the draws leave; a list of fewer than two elements takes no draw
shuffle(x, r) ==
  IF Len(x) < 2
    THEN [x |-> x, rng |-> r]
    ELSE [x |-> [i \in 1 .. Len(x) |-> x[((i - 1 + Randbelow(r, Len(x))) % Len(x)) + 1]],
          rng |-> Advance(r)]

\* load_class_images paired with the class: the files of class c in the
\* order glob gives them, as (img, class_to_idx[class_name])
Globbed(c) == [k \in 1 .. images[c] |-> <<k, c>>]

\* all_class_labels after the loop of lines 214-221 run for the classes
\* 0 .. k-1 from generator state r, and the generator state it leaves
RECURSIVE Labelled(_, _)
Labelled(k, r) ==
  IF k = 0
    THEN [lists |-> <<>>, rng |-> r]
    ELSE LET before == Labelled(k - 1, r)
             mixed == shuffle(Globbed(k - 1), before.rng)
         IN [lists |-> Append(before.lists, SubSeq(mixed.x, 1, Loaded(k - 1))),
             rng |-> mixed.rng]

\* all_class_labels after lines 223-229
all_class_labels ==
  LET lists == Labelled(SplitClasses, rng).lists
  IN IF exclude_class_0
       THEN SelectSeq(lists, LAMBDA class_labels_array : class_labels_array[1][2] # 0)
       ELSE lists

num_training_samples == IntTimesTrainSplit(min_labels_per_class)

\* a split that takes the examples class after class
Rounds_in_blocks(lists, from, rounds) ==
  [j \in 1 .. (rounds * Len(lists)) |->
     lists[((j - 1) \div rounds) + 1][from + ((j - 1) % rounds) + 1]]

\* What the turns from + 1 .. from + rounds of the outer loop of lines
\* 237-243 append: each turn pops the first example left of every list
Rounds(lists, from, rounds) ==
  [j \in 1 .. (rounds * Len(lists)) |->
     lists[((j - 1) % Len(lists)) + 1][from + ((j - 1) \div Len(lists)) + 1]]

\* the session's and the tracker's state are not the split's
Beside ==
  UNCHANGED <<uartVars, readerVars, devVars, ctlVars, callVars, sessVars, histVars, trackVars,
              fileVars, comports, images, max_examples_per_class, exclude_class_0,
              split_method, random_seed, runs, earlier>>

\* lines 210-245; line 228 reads the first example of every list
sequential_split_dataset ==
  /\ split_pc = "called"
  /\ split_method # "random"
  /\ rng' = Labelled(SplitClasses, rng).rng
  /\ IF exclude_class_0 /\ \E c \in SplitIds : Loaded(c) = 0
       THEN /\ split_pc' = "raised"
            /\ split_err' = "IndexError"
            /\ UNCHANGED <<training_data, test_data>>
       ELSE /\ training_data' = Rounds(all_class_labels, 0, num_training_samples)
            /\ test_data' = Rounds(all_class_labels, num_training_samples,
                                   min_labels_per_class - num_training_samples)
            /\ split_pc' = "returned"
            /\ UNCHANGED split_err
  /\ Beside

\* all_data after the loop of lines 185-190 run for the classes 0 .. k-1
RECURSIVE Pooled(_)
Pooled(k) ==
  IF k = 0 THEN <<>> ELSE Pooled(k - 1) \o SubSeq(Globbed(k - 1), 1, Loaded(k - 1))

\* all_data after lines 192-193
all_data ==
  IF exclude_class_0
    THEN SelectSeq(Pooled(SplitClasses), LAMBDA data : data[2] # 0)
    ELSE Pooled(SplitClasses)

\* lines 182-200
random_split_dataset ==
  /\ split_pc = "called"
  /\ split_method = "random"
  /\ LET mixed == shuffle(all_data, rng)
         train_size == IntTimesTrainSplit(Len(mixed.x))
     IN /\ training_data' = SubSeq(mixed.x, 1, train_size)
        /\ test_data' = SubSeq(mixed.x, train_size + 1, Len(mixed.x))
        /\ rng' = mixed.rng
  /\ split_pc' = "returned"
  /\ UNCHANGED split_err
  /\ Beside

\* main seeding the generator whenever random_seed is truthy
main_seed_truthy ==
  /\ split_pc = "main"
  /\ rng' = IF random_seed # NoSeed /\ random_seed # 0 THEN random_seed % RngMod ELSE rng
  /\ split_pc' = "called"
  /\ UNCHANGED <<training_data, test_data, split_err>>
  /\ Beside

\* main, lines 426-429: the generator is seeded when a seed was given; it
\* keeps the state the interpreter gave it from the system's entropy otherwise
main_seed ==
  /\ split_pc = "main"
  /\ rng' = IF random_seed # NoSeed THEN random_seed % RngMod ELSE rng
  /\ split_pc' = "called"
  /\ UNCHANGED <<training_data, test_data, split_err>>
  /\ Beside

\* The program is started once more with the same arguments on the same
\* dataset directory: a new interpreter, whose generator starts anywhere
main_again ==
  /\ split_pc \in {"returned", "raised"}
  /\ runs < MaxRuns
  /\ runs' = runs + 1
  /\ earlier' = <<split_pc, training_data, test_data>>
  /\ rng' \in RngStates
  /\ split_pc' = "main"
  /\ training_data' = <<>>
  /\ test_data' = <<>>
  /\ split_err' = "none"
  /\ UNCHANGED <<uartVars, readerVars, devVars, ctlVars, callVars, sessVars, histVars, trackVars,
                 fileVars, comports, images, max_examples_per_class, exclude_class_0,
                 split_method, random_seed>>

InitNoSplit ==
  /\ images = <<>>
  /\ max_examples_per_class = 0
  /\ exclude_class_0 = FALSE
  /\ training_data = <<>>
  /\ test_data = <<>>
  /\ split_pc = "idle"
  /\ split_err = "none"
  /\ split_method = "sequential"
  /\ random_seed = NoSeed
  /\ rng = 0
  /\ runs = 1
  /\ earlier = <<>>

\* ---------------------------------------------------------------- update_output_ch_file
\* The class names of the datasets, and the lists of them a dataset gives
ClassNames == {"cat", "dog", "owl"}
NameLists == {<<>>} \cup {<<a>> : a \in ClassNames} \cup {<<a, b>> : a, b \in ClassNames}

\* new_contents of lines 288-301: the text is fixed but for the number after
\* "#define OUTPUT_CH" and the quoted names in the initializer
Contents(class_names) ==
  [exists |-> TRUE, output_ch |-> Len(class_names), labels |-> class_names]

\* No file at file_path
NoFile == [exists |-> FALSE, output_ch |-> 0, labels |-> <<>>]

\* What the file may hold before the first call: what an earlier call
\* generated, or the text of another revision of the firmware
Revisions == {Contents(n) : n \in NameLists} \cup {[exists |-> TRUE, output_ch |-> 10, labels |-> <<>>]}

\* the session's, the tracker's and the split's state are not the file's
Aside ==
  /\ och_calls < MaxCalls
  /\ och_calls' = och_calls + 1
  /\ UNCHANGED <<uartVars, readerVars, devVars, ctlVars, callVars, sessVars, histVars, trackVars,
                 splitVars, comports>>

\* update_output_ch_file writing without the comparison of line 306
update_output_ch_file_always ==
  /\ Aside
  /\ \E class_names \in NameLists :
       /\ och_names' = class_names
       /\ IF ~header.exists
            THEN och_err' = "FileNotFoundError" /\ UNCHANGED <<header, header_writes>>
            ELSE /\ och_err' = "none"
                 /\ header' = Contents(class_names)
                 /\ header_writes' = header_writes + 1
  /\ UNCHANGED <<output_channel, valid_commands, ss_state, ss_calls>>

\* utils.update_output_ch_file, lines 286-308: open(file_path, "r") raises
\* when there is no file
update_output_ch_file ==
  /\ Aside
  /\ \E class_names \in NameLists :
       /\ och_names' = class_names
       /\ IF ~header.exists
            THEN och_err' = "FileNotFoundError" /\ UNCHANGED <<header, header_writes>>
            ELSE /\ och_err' = "none"
                 /\ IF header # Contents(class_names)
                      THEN /\ header' = Contents(class_names)
                           /\ header_writes' = header_writes + 1
                      ELSE UNCHANGED <<header, header_writes>>
  /\ UNCHANGED <<output_channel, valid_commands, ss_state, ss_calls>>

\* ---------------------------------------------------------------- send_signal
\* The lines of the text update_output_ch_file generates (lines 288-301)
HeaderComment ==
  <<"/","/"," ","G","E","N","E","R","A","T","E","D"," ","F","I","L","E"," ","F","R","O","M"," ","A","U","T","O","M","A","T","E","D"," ","T","R","A","I","N","I","N","G"," ","S","C","R","I","P","T">>
IfndefLine == <<"#","i","f","n","d","e","f"," ","O","U","T","P","U","T","_","C","H","_","H">>
DefineGuardLine == <<"#","d","e","f","i","n","e"," ","O","U","T","P","U","T","_","C","H","_","H">>
PaddingLine == <<" "," "," "," "," "," "," "," "," "," "," "," "," "," "," "," "," "," "," ">>
DefineCountPrefix == <<"#","d","e","f","i","n","e"," ","O","U","T","P","U","T","_","C","H"," ">>
LabelsOpenLine ==
  <<"s","t","a","t","i","c"," ","c","o","n","s","t"," ","c","h","a","r"," ","*","c","o","n","s","t"," ","O","U","T","P","U","T","_","L","A","B","E","L","S","[","]"," ","="," ","{">>
LabelsCloseLine == <<"}",";">>
EndifLine ==
  <<"#","e","n","d","i","f"," ","/","/"," ","O","U","T","P","U","T","_","C","H","_","H"," "," "," "," "," "," "," "," "," "," "," "," "," "," "," "," ">>
OutputChWord == <<"O","U","T","P","U","T","_","C","H">>

NameChars ==
  ("cat" :> <<"c","a","t">>) @@ ("dog" :> <<"d","o","g">>) @@ ("owl" :> <<"o","w","l">>)

\* ",\n".join([f'"{class_name}"' for class_name in class_names]), as lines
LabelLines(class_names) ==
  IF class_names = <<>> THEN <<<<>>>>
  ELSE [i \in 1..Len(class_names) |->
          <<"\"">> \o NameChars[class_names[i]] \o <<"\"">>
            \o (IF i < Len(class_names) THEN <<",">> ELSE <<>>)]

GeneratedLines(class_names) ==
  <<HeaderComment, <<>>, IfndefLine, DefineGuardLine, PaddingLine,
    DefineCountPrefix \o Str(Len(class_names)), <<>>, LabelsOpenLine>>
  \o LabelLines(class_names)
  \o <<LabelsCloseLine, <<>>, EndifLine>>

\* The lines of the file: those generated for its labels, or those of the
\* header of another revision of the firmware (the definition comes first)
FileLines(h) ==
  IF h = Contents(h.labels) THEN GeneratedLines(h.labels)
  ELSE <<DefineCountPrefix \o Str(h.output_ch), <<>>, LabelsOpenLine, LabelsCloseLine>>

\* re.search(r"\d+", line): the first run of digits of the line
FirstNumber(line) ==
  IF \E i \in 1..Len(line) : IsDigit(line[i])
  THEN LET first == CHOOSE i \in 1..Len(line) :
                      IsDigit(line[i]) /\ \A j \in 1..(i - 1) : ~IsDigit(line[j])
           last == CHOOSE i \in first..Len(line) :
                     /\ \A j \in first..i : IsDigit(line[j])
                     /\ (i = Len(line) \/ ~IsDigit(line[i + 1]))
       IN  [ok |-> TRUE, val |-> DigitsVal(SubSeq(line, first, last))]
  ELSE [ok |-> FALSE, val |-> 0]

\* lines 58-65: the loop stops at the first line that contains "OUTPUT_CH",
\* whether or not a number was found in it
ParsedCount(lines) ==
  LET hits == SelectSeq(lines, LAMBDA l : Contains(OutputChWord, l))
  IN  IF hits = <<>> THEN [ok |-> FALSE, val |-> 0] ELSE FirstNumber(hits[1])

\* send_signal.main up to its command loop (lines 48-99): the file is opened
\* (FileNotFoundError when there is none at either path), the count parsed,
\* the port looked up, and the commands accepted are built
send_signal_main ==
  /\ ss_calls < MaxCalls
  /\ ss_calls' = ss_calls + 1
  /\ IF ~header.exists
       THEN /\ ss_state' = "FileNotFoundError"
            /\ output_channel' = [ok |-> FALSE, val |-> 0]
            /\ valid_commands' = {}
       ELSE /\ output_channel' = ParsedCount(FileLines(header))
            /\ IF ~output_channel'.ok
                 THEN ss_state' = "no_count" /\ valid_commands' = {}
                 ELSE IF find_stm32_port = "None"
                 THEN ss_state' = "no_port" /\ valid_commands' = {}
                 ELSE /\ ss_state' = "serving"
                      /\ valid_commands' =
                           {Str(i) : i \in 0..(output_channel'.val - 1)}
                             \cup {<<"t">>, <<"v">>, <<"i">>}
  /\ UNCHANGED <<uartVars, readerVars, devVars, ctlVars, callVars, sessVars, histVars, trackVars,
                 splitVars, comports, header, header_writes, och_names, och_err, och_calls>>

InitNoFile ==
  /\ comports = <<"usbmodem">>
  /\ header = NoFile
  /\ header_writes = 0
  /\ och_names = <<>>
  /\ och_err = "none"
  /\ och_calls = 0
  /\ output_channel = [ok |-> FALSE, val |-> 0]
  /\ valid_commands = {}
  /\ ss_state = "unstarted"
  /\ ss_calls = 0

\* ---------------------------------------------------------------- initial states
\* UARTHandler.__init__: empty log, event clear, reader thread started
InitUart ==
  /\ last_messages = <<>>
  /\ message_received = FALSE
  /\ running = TRUE
  /\ serOpen = TRUE
  /\ wire = <<>>
  /\ rpc = "loop"
  /\ rline = NoLine
  /\ rstale = FALSE
  /\ emitted = <<>>
  /\ devq = <<>>
  /\ written = <<>>
  /\ events = <<>>
  /\ matched = NoLine
  /\ lastSet = NoLine

InitCalls ==
  /\ stack = <<>>
  /\ exc = "none"
  /\ errcmd = <<>>
  /\ cmd = <<>>
  /\ expected = <<>>
  /\ wmres = FALSE
  /\ results = <<>>
  /\ tail = <<>>
  /\ vres = -1
  /\ epoch = 0
  /\ idx = 0
  /\ tm = NoTraining
  /\ vm = [correct |-> 0, total |-> 0, cm |-> NoMetrics]
  /\ rc = -1
  /\ InitTracker

\* One call of wait_for_consecutive_inference(num) on a fresh handler

InitVoter ==
  /\ InitUart
  /\ InitCalls
  /\ InitNoFile
  /\ InitNoSplit
  /\ pc = "wci_start"
  /\ num \in 1..MaxN
  /\ budget \in 0..MaxLines
  /\ honest = FALSE
  /\ epochs = 0
  /\ train_data = <<>>
  /\ val_data = <<>>
  /\ todo = <<>>

NextVoter == Reader \/ DeviceEmit(VoterLines) \/ InferenceVoter

SpecVoter == InitVoter /\ [][NextVoter]_vars

\* A caller sends the commands of todo one after the other on a fresh handler,
\* going on to the next one when the last one was acknowledged
\* (as run_validation and run_training_epoch do, lines 259, 325, 350).
caller_send_command ==
  /\ pc \in {"idle", "returned"}
  /\ todo # <<>>
  /\ cmd' = Head(todo)
  /\ todo' = Tail(todo)
  /\ pc' = "sc_start"
  /\ UNCHANGED <<uartVars, readerVars, devVars, stack, exc, errcmd, histVars>>
  /\ UNCHANGED <<expected, wmres, num, results, tail, vres>>
  /\ UNCHANGED <<epochs, train_data, val_data, epoch, idx, tm, vm, rc>>
  /\ UNCHANGED apartVars

ChanTodo == {<<c>> : c \in {<<"1">>, <<"1", "0">>}} \cup {<<c, c>> : c \in {<<"1">>}}

InitChan ==
  /\ InitUart
  /\ InitCalls
  /\ InitNoFile
  /\ InitNoSplit
  /\ pc = "idle"
  /\ num = 3
  /\ budget \in 0..MaxChanLines
  /\ honest = FALSE
  /\ epochs = 0
  /\ train_data = <<>>
  /\ val_data = <<>>
  /\ todo \in ChanTodo

NextChan == Reader \/ DeviceEmit(ChanLines) \/ CommandChannel \/ caller_send_command

SpecChan == InitChan /\ [][NextChan]_vars

\* One session of main on a fresh handler: the lists are the classes of the
\* examples in the order the split leaves them (lines 176-245).
ClassList(n) == [i \in 1..n |-> (i - 1) % NumClasses]

Init ==
  /\ InitUart
  /\ InitCalls
  /\ InitNoFile
  /\ InitNoSplit
  /\ pc = "m_start"
  /\ num = 3
  /\ budget = 0
  /\ honest = TRUE
  /\ epochs \in 0..MaxEpochs
  /\ train_data \in {ClassList(n) : n \in 0..MaxTrain}
  /\ val_data \in {ClassList(n) : n \in 0..MaxVal}
  /\ todo = <<>>

\* A session of one epoch over at most MaxLive training and validation examples
InitLive ==
  /\ InitUart
  /\ InitCalls
  /\ InitNoFile
  /\ InitNoSplit
  /\ pc = "m_start"
  /\ num = 3
  /\ budget = 0
  /\ honest = TRUE
  /\ epochs = 1
  /\ train_data \in {ClassList(n) : n \in 0..MaxLive}
  /\ val_data \in {ClassList(n) : n \in 0..MaxLive}
  /\ todo = <<>>

\* One call of run_training_epoch(uart, train_data, 0, 1) on a fresh handler,
\* with one example of class 2
InitExample ==
  /\ InitUart
  /\ InitCalls
  /\ InitNoFile
  /\ InitNoSplit
  /\ pc = "te_start"
  /\ num = 3
  /\ budget \in 0..MaxExampleLines
  /\ honest = FALSE
  /\ epochs = 1
  /\ train_data = <<2>>
  /\ val_data = <<>>
  /\ todo = <<>>

NextExample == Reader \/ DeviceEmit(ExampleLines) \/ CommandChannel \/ Training

SpecExample == InitExample /\ [][NextExample]_vars

\* Calls on a fresh MetricsTracker
InitMetrics ==
  /\ InitUart
  /\ InitCalls
  /\ InitNoFile
  /\ InitNoSplit
  /\ pc = "idle"
  /\ num = 3
  /\ budget = 0
  /\ honest = FALSE
  /\ epochs = 0
  /\ train_data = <<>>
  /\ val_data = <<>>
  /\ todo = <<>>

NextMetrics == Tracker

SpecMetrics == InitMetrics /\ [][NextMetrics]_vars

\* One call of run_validation(uart, val_data) on a fresh handler
InitVal ==
  /\ InitUart
  /\ InitCalls
  /\ InitNoFile
  /\ InitNoSplit
  /\ pc = "rv_start"
  /\ num = 3
  /\ budget = 0
  /\ honest = TRUE
  /\ epochs = 0
  /\ train_data = <<>>
  /\ val_data \in {ClassList(n) : n \in 0..MaxValPass}
  /\ todo = <<>>

NextVal == Reader \/ DeviceRespond \/ CommandChannel \/ InferenceVoter \/ Validation

SpecVal == InitVal /\ [][NextVal]_vars

\* One call of sequential_split_dataset on a dataset directory
InitSplit ==
  /\ InitUart
  /\ InitCalls
  /\ InitNoFile
  /\ pc = "idle"
  /\ num = 3
  /\ budget = 0
  /\ honest = FALSE
  /\ epochs = 0
  /\ train_data = <<>>
  /\ val_data = <<>>
  /\ todo = <<>>
  /\ images \in [SplitIds -> ImageCounts]
  /\ max_examples_per_class \in Limits
  /\ exclude_class_0 \in BOOLEAN
  /\ split_method \in Methods
  /\ random_seed = NoSeed
  /\ rng \in RngStates
  /\ runs = 1
  /\ earlier = <<>>
  /\ training_data = <<>>
  /\ test_data = <<>>
  /\ split_pc = "called"
  /\ split_err = "none"

NextSplit == sequential_split_dataset \/ random_split_dataset

SpecSplit == InitSplit /\ [][NextSplit]_vars

\* main started MaxRuns times with the same arguments on the same dataset
\* directory, up to the split (lines 425-462)
InitRuns ==
  /\ InitUart
  /\ InitCalls
  /\ InitNoFile
  /\ pc = "idle"
  /\ num = 3
  /\ budget = 0
  /\ honest = FALSE
  /\ epochs = 0
  /\ train_data = <<>>
  /\ val_data = <<>>
  /\ todo = <<>>
  /\ images \in [SplitIds -> RunCounts]
  /\ max_examples_per_class \in RunLimits
  /\ exclude_class_0 \in BOOLEAN
  /\ split_method \in Methods
  /\ random_seed \in Seeds
  /\ rng \in RngStates
  /\ runs = 1
  /\ earlier = <<>>
  /\ training_data = <<>>
  /\ test_data = <<>>
  /\ split_pc = "main"
  /\ split_err = "none"

NextRuns == main_seed \/ sequential_split_dataset \/ random_split_dataset \/ main_again

SpecRuns == InitRuns /\ [][NextRuns]_vars

\* Calls of update_output_ch_file on one file
InitHeader ==
  /\ InitUart
  /\ InitCalls
  /\ InitNoSplit
  /\ pc = "idle"
  /\ num = 3
  /\ budget = 0
  /\ honest = FALSE
  /\ epochs = 0
  /\ train_data = <<>>
  /\ val_data = <<>>
  /\ todo = <<>>
  /\ comports = <<"usbmodem">>
  /\ header \in Revisions \cup {NoFile}
  /\ header_writes = 0
  /\ och_names = <<>>
  /\ och_err = "none"
  /\ och_calls = 0
  /\ output_channel = [ok |-> FALSE, val |-> 0]
  /\ valid_commands = {}
  /\ ss_state = "unstarted"
  /\ ss_calls = 0

NextHeader == update_output_ch_file \/ send_signal_main

SpecHeader == InitHeader /\ [][NextHeader]_vars

\* main from line 467 on: the handler is not constructed yet, no reader
\* thread runs and no port is open
Hosts == {<<>>, <<"bluetooth">>, <<"bluetooth", "usbmodem">>}

InitStart ==
  /\ last_messages = <<>>
  /\ message_received = FALSE
  /\ running = FALSE
  /\ serOpen = FALSE
  /\ wire = <<>>
  /\ rpc = "unstarted"
  /\ rline = NoLine
  /\ rstale = FALSE
  /\ emitted = <<>>
  /\ devq = <<>>
  /\ written = <<>>
  /\ events = <<>>
  /\ matched = NoLine
  /\ lastSet = NoLine
  /\ InitCalls
  /\ InitNoSplit
  /\ comports \in Hosts
  /\ header = NoFile
  /\ header_writes = 0
  /\ och_names = <<>>
  /\ och_err = "none"
  /\ och_calls = 0
  /\ output_channel = [ok |-> FALSE, val |-> 0]
  /\ valid_commands = {}
  /\ ss_state = "unstarted"
  /\ ss_calls = 0
  /\ pc = "m_uart"
  /\ num = 3
  /\ budget = 0
  /\ honest = TRUE
  /\ epochs \in 0..MaxEpochs
  /\ train_data \in {ClassList(n) : n \in 0..MaxTrain}
  /\ val_data \in {ClassList(n) : n \in 0..MaxVal}
  /\ todo = <<>>

NextStart ==
  \/ UARTHandler_init
  \/ Reader \/ DeviceRespond \/ CommandChannel \/ InferenceVoter
  \/ Validation \/ Training \/ Main

SpecStart == InitStart /\ [][NextStart]_vars

\* The reader thread of a running handler whose foreground is idle
InitReader ==
  /\ InitUart
  /\ InitCalls
  /\ InitNoFile
  /\ InitNoSplit
  /\ pc = "idle"
  /\ num = 3
  /\ budget \in 0..MaxReaderLines
  /\ honest = FALSE
  /\ epochs = 0
  /\ train_data = <<>>
  /\ val_data = <<>>
  /\ todo = <<>>

NextReader == Reader \/ DeviceEmit(ReaderLines)

SpecReader == InitReader /\ [][NextReader]_vars

Next ==
  \/ Reader \/ DeviceRespond \/ CommandChannel \/ InferenceVoter
  \/ Validation \/ Training \/ Main

Spec == Init /\ [][Next]_vars
\* The link has gone quiet: the device has sent all it sends in this run and
\* every line sent has been read, appended, signalled and the signal consumed.
Quiet ==
  /\ Len(emitted) = budget
  /\ wire = <<>>
  /\ rpc = "loop"
  /\ ~message_received

\* The voter where time remains while anything is still under way: the
\* deadline passes only once the link is quiet.
VoterWithTimeLeft ==
  \/ wait_for_consecutive_inference_start \/ wait_for_consecutive_inference_again
  \/ (Quiet /\ wait_for_consecutive_inference_timeout)
  \/ wait_for_consecutive_inference_wait \/ wait_for_consecutive_inference_clear
  \/ wait_for_consecutive_inference_scan \/ wait_for_consecutive_inference_for

NextVoterLive == Reader \/ DeviceEmit(VoterLines) \/ VoterWithTimeLeft

\* Both threads keep running: the reader thread and the foreground are
\* scheduled by the operating system.
SpecVoterLive ==
  InitVoter /\ [][NextVoterLive]_vars /\ WF_vars(Reader) /\ WF_vars(VoterWithTimeLeft)

\* The session with both threads scheduled and with time passing: each turn of
\* a wait loop takes time (the wait on the signal, the reader's sleep), so the
\* deadline test of a loop that keeps turning fails after finitely many turns.
Foreground == CommandChannel \/ InferenceVoter \/ Validation \/ Training \/ Main

SpecLive ==
  /\ InitLive /\ [][Next]_vars
  /\ WF_vars(Reader) /\ WF_vars(Foreground)
  /\ SF_vars(wait_for_message_timeout)
  /\ SF_vars(wait_for_consecutive_inference_timeout)

\* ---------------------------------------------------------------- claims: the voter
AllEqualTail(res, n, c) ==
  /\ Len(res) >= n
  /\ \A i \in (Len(res) - n + 1)..Len(res) : res[i] = c

\* C4: the call returns c iff the last n entries appended to the vote window
\* all equal c, at the first append where that holds, and never returns while
\* fewer than n entries have been appended.
C4_ReturnsIffLastNEqual ==
  /\ pc = "returned" =>
       /\ Len(results) >= num
       /\ AllEqualTail(results, num, vres)
  /\ pc # "returned" =>
       ~\E c \in {results[i] : i \in 1..Len(results)} : AllEqualTail(results, num, c)
  /\ \A k \in 1..(Len(results) - 1) :
       ~\E c \in {results[i] : i \in 1..k} : AllEqualTail(SubSeq(results, 1, k), num, c)

C4_Witness ==
  /\ pc = "returned"
  /\ num >= 2
  /\ Len(results) > num
  /\ \E i \in 1..Len(results) : results[i] # vres

S445 == <<Inf4, Inf4, Inf5>>
S444 == <<Inf4, Inf4, Inf4>>

\* C5: with confirmation count 3, when the device sends 4, 4, 5 and nothing
\* else, the call never returns a class (it ends with the timeout error).
C5_TwoFoursAndAFiveTimeOut ==
  (num = 3 /\ budget = 3 /\ emitted = S445) => pc # "returned"

\* C6: with confirmation count 3, an empty log and time remaining, when the
\* device sends 4, 4, 4 the call eventually returns 4.
C6_ThreeFoursReturnFour ==
  (num = 3 /\ budget = 3 /\ emitted = S444) ~> (pc = "returned" /\ vres = 4)

C6_Witness ==
  /\ num = 3 /\ budget = 3 /\ emitted = S444
  /\ pc = "returned" /\ vres = 4

\* ---------------------------------------------------------------- claims: the command channel
Range(s) == {s[i] : i \in 1..Len(s)}

\* C1: send_command(cmd) succeeds only on a line that acknowledges exactly
\* the token cmd; an acknowledgment of another token never makes it succeed.
C1_AckOfExactToken ==
  pc = "sc_settle" => Text(matched) = Strip(CmdReceived \o cmd)

\* C2: send_command never succeeds on an acknowledgment that the device sent
\* for an earlier command, that is after an earlier write and before the
\* write of this call.
C2_NoStaleAck ==
  pc = "sc_settle" => ~(1 <= matched.tag /\ matched.tag < Len(written))

\* C8: when the foreground finds the signal set as it waits, the line on
\* whose account the signal was set is in the message log.
C8_PublishBeforeNotify ==
  (pc \in {"wm_wait", "wci_wait"} /\ message_received) => lastSet \in Range(last_messages)

\* ---------------------------------------------------------------- claims: the session
Closed == pc \in {"m_ret", "main_done"}

\* C3: a command without acknowledgment raises the timeout error carrying the
\* command; from then on nothing is written and nothing presented, and main
\* ends with the reader stopped, the serial connection closed and result 1.
C3_CommandTimeoutAborts ==
  /\ [][(pc = "sc_waited" /\ ~wmres /\ pc' # pc) =>
          (errcmd' = cmd /\ exc' = "TimeoutError" /\ pc' = "m_finally")]_vars
  /\ [][errcmd # <<>> => (written' = written /\ events' = events /\ errcmd' = errcmd)]_vars
  /\ []((errcmd # <<>> /\ pc = "main_done") =>
          (rc = 1 /\ ~running /\ rpc = "exit" /\ ~serOpen))
  /\ [](errcmd # <<>> => pc \in {"m_finally", "close_join", "m_ret", "main_done"})

C3_Witness ==
  /\ pc = "main_done"
  /\ errcmd = <<"0">>
  /\ idx < Len(train_data)
  /\ wire # <<>>

\* C7: once close() has returned the reader thread has exited; the log gets
\* no further line and the signal is not set again, whatever the device sends.
C7_NothingAfterClose ==
  /\ [](Closed => rpc = "exit")
  /\ [][Closed => (last_messages' = last_messages /\ message_received' = message_received)]_vars

C7_Witness ==
  /\ pc = "main_done"
  /\ wire # <<>>
  /\ devq # <<>>

ModeCommands == SelectSeq(written, LAMBDA c : c \in {<<"v">>, <<"t">>})

RECURSIVE Alternation(_)
Alternation(e) == IF e = 0 THEN <<<<"v">>>> ELSE Alternation(e - 1) \o << <<"t">>, <<"v">> >>

\* C9: a session of at least one epoch over a training list that is not
\* empty, in which every command was acknowledged, has written the mode
\* commands v, then t v once per epoch.
C9_ModeCommandsAlternate ==
  (pc = "main_done" /\ epochs >= 1 /\ train_data # <<>> /\ errcmd = <<>>)
    => ModeCommands = Alternation(epochs)

\* the events since the current epoch's mode command, while the epoch lasts
LastT == CHOOSE k \in 1..Len(events) :
            /\ events[k] = [e |-> "cmd", c |-> <<"t">>]
            /\ \A j \in (k + 1)..Len(events) : events[j] # [e |-> "cmd", c |-> <<"t">>]
InEpoch ==
  /\ [e |-> "cmd", c |-> <<"t">>] \in Range(events)
  /\ \A j \in (LastT + 1)..Len(events) : events[j] # [e |-> "cmd", c |-> <<"v">>]
EpochEvents == SubSeq(events, LastT + 1, Len(events))
InOrder ==
  [k \in 1..(2 * Len(train_data)) |->
     IF k % 2 = 1
     THEN [e |-> "show", ph |-> "train", i |-> (k + 1) \div 2,
           ep |-> Len(SelectSeq(written, LAMBDA c : c = <<"t">>)) - 1]
     ELSE [e |-> "cmd", c |-> Str(train_data[k \div 2])]]

\* C10: in a training epoch the examples are taken in list order, each
\* presented once and then its class command written once, never again.
C10_EachExampleOnceInOrder ==
  InEpoch => /\ Len(EpochEvents) <= Len(InOrder)
             /\ EpochEvents = SubSeq(InOrder, 1, Len(EpochEvents))

C10_Witness ==
  /\ pc = "te_waited"
  /\ idx = 2
  /\ tm.failed = 1
  /\ Len(EpochEvents) = 4

\* C11: a training whose completion or prediction never arrives is not
\* fatal: as long as every command was acknowledged, failed trainings never
\* end the session with an error.
C11_TrainingFailuresNonFatal ==
  (errcmd = <<>> /\ tm.failed >= 1) => exc = "none"

\* the events since the mode command of the current validation pass
LastV == CHOOSE k \in 1..Len(events) :
            /\ events[k] = [e |-> "cmd", c |-> <<"v">>]
            /\ \A j \in (k + 1)..Len(events) : events[j] # [e |-> "cmd", c |-> <<"v">>]
InPass ==
  /\ [e |-> "cmd", c |-> <<"v">>] \in Range(events)
  /\ \A j \in (LastV + 1)..Len(events) : events[j] # [e |-> "cmd", c |-> <<"t">>]
PassEvents == SubSeq(events, LastV + 1, Len(events))
Decided == {k \in 1..Len(val_data) : 2 * k <= Len(PassEvents) /\ PassEvents[2 * k].e = "decided"}

\* C12: in a validation pass the examples are presented once each in list
\* order, each followed by a decision or a timeout of the voter; a timeout
\* does not end the pass, and at the end of the pass total is the number of
\* examples decided and correct the number decided as their true class.
C12_InferenceTimeoutAbsorbed ==
  InPass =>
    /\ Len(PassEvents) <= 2 * Len(val_data)
    /\ \A j \in 1..Len(PassEvents) :
         IF j % 2 = 1
         THEN /\ PassEvents[j].e = "show"
              /\ PassEvents[j].ph = "val"
              /\ PassEvents[j].i = (j + 1) \div 2
         ELSE PassEvents[j].e \in {"decided", "timeout"}
    /\ (exc # "none" \/ pc = "raised") => errcmd # <<>>
    /\ pc = "rv_end" =>
         /\ Len(PassEvents) = 2 * Len(val_data)
         /\ vm.total = Cardinality(Decided)
         /\ vm.correct = Cardinality({k \in Decided : PassEvents[2 * k].cls = val_data[k]})
         /\ vm.correct <= vm.total

C12_Witness ==
  /\ pc = "rv_end"
  /\ Len(val_data) = 2
  /\ Len(PassEvents) = 4
  /\ PassEvents[2].e = "timeout"
  /\ PassEvents[4].e = "decided"

\* C13: when a command timeout has ended the session, a snapshot of the
\* metrics has been written.
C13_MetricsPersistedBeforeAbort ==
  (pc \in {"m_ret", "main_done"} /\ errcmd # <<>>) => DOMAIN files # {}

\* ---------------------------------------------------------------- claims: MetricsTracker
TrackerStep == mt_ops' = mt_ops + 1

\* C15: update(predicted, true) with both ids in the catalog adds one to the
\* aggregate total and to true's total; on a hit one to true's and to the
\* aggregate true positives and no false positive changes; on a miss one to
\* predicted's false positives and nothing else.
C15_UpdateCounts ==
  [][(TrackerStep /\ mt_call'.op = "update"
        /\ mt_call'.predicted \in TrackIds /\ mt_call'.true \in TrackIds) =>
       LET p == mt_call'.predicted
           t == mt_call'.true
           hit == IF p = t THEN 1 ELSE 0
       IN  /\ metrics'.total = metrics.total + 1
           /\ metrics'.true_positives = metrics.true_positives + hit
           /\ metrics'.false_positives = metrics.false_positives
           /\ \A c \in TrackIds :
                /\ metrics'.per[c].total = metrics.per[c].total + (IF c = t THEN 1 ELSE 0)
                /\ metrics'.per[c].true_positives =
                     metrics.per[c].true_positives + (IF c = t THEN hit ELSE 0)
                /\ metrics'.per[c].false_positives =
                     metrics.per[c].false_positives + (IF c = p THEN 1 - hit ELSE 0)]_vars

C15_Witness ==
  /\ mt_call.op = "update"
  /\ mt_call.predicted \in TrackIds \ {mt_call.true}
  /\ metrics.per[mt_call.predicted].false_positives = 1
  /\ metrics.true_positives = 1

\* C16: the aggregate total is the sum of the per-class totals, and true
\* positives never exceed the total, per class and in the aggregate.
C16_TotalsAgree ==
  /\ metrics.total = SumOver(metrics.per, "total")
  /\ metrics.true_positives <= metrics.total
  /\ \A c \in TrackIds : metrics.per[c].true_positives <= metrics.per[c].total

C16_Witness ==
  /\ mt_err = "KeyError"
  /\ metrics.total >= 2
  /\ DOMAIN files # {}
  /\ mt_epoch >= 1

\* C17: get_accuracy raises nothing and returns 0 when the total it divides
\* by is 0, for a class (class 0 too) and for the aggregate; otherwise it
\* returns the true positives divided by that total.
C17_AccuracyGuarded ==
  mt_call.op = "get_accuracy" =>
    LET of == IF mt_call.given THEN metrics.per[mt_call.class_id]
              ELSE [true_positives |-> metrics.true_positives, total |-> metrics.total]
    IN  /\ mt_err = "none"
        /\ of.total = 0 => acc.num = 0
        /\ of.total > 0 => (acc.num = of.true_positives /\ acc.den = of.total)

C17_Witness ==
  /\ mt_call.op = "get_accuracy"
  /\ mt_call.given
  /\ mt_call.class_id = 0
  /\ metrics.per[0].total = 0
  /\ metrics.true_positives >= 1

CountNames == {"true_positives", "total", "false_positives"}

\* C18: only train_mode and val_mode take a count back; update never
\* decreases one; save_metrics and get_accuracy change no count, nor step,
\* epoch or mode.
C18_ResetOnlyOnModeSwitch ==
  /\ [][(\E f \in CountNames :
            \/ metrics'[f] < metrics[f]
            \/ \E c \in TrackIds : metrics'.per[c][f] < metrics.per[c][f])
          => mt_call'.op \in {"val_mode", "train_mode"}]_vars
  /\ [][(TrackerStep /\ mt_call'.op \in {"save_metrics", "get_accuracy"})
          => UNCHANGED <<metrics, mt_step, mt_epoch, mt_mode>>]_vars

C18_Witness ==
  /\ mt_call.op = "save_metrics"
  /\ metrics.total >= 2
  /\ mt_step >= 1

\* C19: a snapshot file, once written, keeps its content; stated for the
\* files written after updates that all succeeded (their step is their total).
C19_SnapshotNeverOverwritten ==
  [][(/\ \A n \in DOMAIN files : files[n].step = files[n].metrics.total
      /\ \A n \in DOMAIN files' : files'[n].step = files'[n].metrics.total)
       => \A n \in DOMAIN files : files'[n] = files[n]]_vars

\* ---------------------------------------------------------------- claims: one training example
AckDonePrediction == <<AckOf(<<"t">>), AckOf(<<"2">>), Done, Pred(<<"2">>)>>

\* C14: for an example of class 2, when the device sends the acknowledgment
\* of 2, TRAINING DONE and TRAINING PREDICTION: 2 after the class command
\* was written and no wait times out, the example is recorded as completed
\* and correct.
C14_CompletedAndCorrect ==
  (/\ emitted = AckDonePrediction
   /\ \A l \in Range(last_messages) \cup Range(wire) : l.tag = 2
   /\ errcmd = <<>> /\ wmres
   /\ pc \in {"te_for", "returned", "raised"} /\ idx = 1)
  => /\ tm.completed = 1 /\ tm.failed = 0 /\ tm.correct = 1
     /\ tm.cm[2] = [correct |-> 1, total |-> 1]


\* ---------------------------------------------------------------- claims: the split
\* How many examples of class c a list holds
Examples(list, c) == Len(SelectSeq(list, LAMBDA e : e[2] = c))

\* C20: sequential split with no excluded class: the training set holds
\* exactly floor(0.7 x minClassCount) examples of every class, minClassCount
\* being the smallest per-class count
C20_TrainingCountPerClass ==
  (/\ split_pc = "returned" /\ split_method = "sequential"
   /\ ~exclude_class_0 /\ max_examples_per_class = 0)
  => \A c \in SplitIds :
       Examples(training_data, c) = (7 * min_labels_per_class) \div 10

\* C21: sequential split: for every class the validation set holds the
\* remainder of the class, every loaded example that was not placed in
\* training, so that both sets together hold every loaded example once
C21_ValidationHoldsRemainder ==
  (split_pc = "returned" /\ split_method = "sequential" /\ ~exclude_class_0)
  => \A c \in SplitIds :
       Examples(test_data, c) = Loaded(c) - Examples(training_data, c)

\* C22: both split policies are deterministic: two runs with the same seed,
\* the same classes and the same order of the files give the same training
\* and validation sequences
C22_SameSeedSameSplit ==
  (runs >= 2 /\ split_pc \in {"returned", "raised"} /\ random_seed # NoSeed)
  => earlier = <<split_pc, training_data, test_data>>

C22_Witness ==
  /\ runs = 2 /\ split_pc = "returned" /\ random_seed # NoSeed
  /\ Len(training_data) >= 2 /\ Len(test_data) >= 1
  /\ training_data[1][1] # 1

\* The classes left when class 0 is excluded, the smallest number of
\* examples loaded for one of them, and the number loaded for all of them
Remaining == SplitIds \ {0}

MinRemaining ==
  CHOOSE m \in {Loaded(c) : c \in Remaining} : \A c \in Remaining : m <= Loaded(c)

RECURSIVE LoadedIn(_)
LoadedIn(S) ==
  IF S = {} THEN 0 ELSE LET c == CHOOSE d \in S : TRUE IN Loaded(c) + LoadedIn(S \ {c})

\* C23: with class 0 excluded no example of class 0 is in training or
\* validation, and the training size is computed over the remaining classes
\* only: 0.7 x their number of examples for the random split, 0.7 x their
\* smallest per-class count for every class in the sequential split (the
\* product truncated as line 235 and line 198 truncate it)
C23_ExclusionBeforeSizes ==
  (split_pc = "returned" /\ exclude_class_0)
  => /\ Examples(training_data, 0) = 0
     /\ Examples(test_data, 0) = 0
     /\ split_method = "random"
          => Len(training_data) = IntTimesTrainSplit(LoadedIn(Remaining))
     /\ split_method = "sequential"
          => \A c \in Remaining :
               Examples(training_data, c) = IntTimesTrainSplit(MinRemaining)

\* C24: random split: for a pool of N examples (after exclusion) the
\* training set holds floor(0.7 x N) examples and the validation set the
\* remaining N - floor(0.7 x N); the two are disjoint and together hold
\* every pooled example exactly once
C24_RandomSplitSizes ==
  (split_pc = "returned" /\ split_method = "random")
  => LET N == Len(all_data)
     IN /\ Len(training_data) = (7 * N) \div 10
        /\ Len(test_data) = N - (7 * N) \div 10
        /\ Range(training_data) \cap Range(test_data) = {}
        /\ Range(training_data) \cup Range(test_data) = Range(all_data)
        /\ Cardinality(Range(training_data) \cup Range(test_data)) = N

\* ---------------------------------------------------------------- claims: the header file
\* C25: update_output_ch_file writes the file if and only if the generated
\* content differs from the file's current content: a second call with the
\* same class names writes nothing, and after a call the file holds the
\* content generated for the names given
C25_WritesIffDifferent ==
  [][(och_calls' = och_calls + 1 /\ header.exists)
       => /\ (header_writes' = header_writes + 1) <=> (header # Contents(och_names'))
          /\ header_writes' \in {header_writes, header_writes + 1}
          /\ (och_calls >= 1 /\ och_names' = och_names) => header_writes' = header_writes
          /\ header' = Contents(och_names')
          /\ header'.output_ch = Len(och_names') /\ header'.labels = och_names']_vars

\* the second of two calls with the same two names has returned
C25_Witness ==
  /\ och_calls = 2 /\ header_writes = 1 /\ och_err = "none"
  /\ och_names = <<"cat", "dog">> /\ header = Contents(och_names)

\* ---------------------------------------------------------------- claims: the start of a session
\* C26: if no device port is discoverable, creating the UARTHandler fails
\* before a reader thread is started and before a byte is written to a
\* transport; no validation or training pass starts, and main returns 1
C26_NoPortNoSession ==
  find_stm32_port = "None"
  => /\ rpc = "unstarted" /\ ~running /\ ~serOpen
     /\ written = <<>> /\ events = <<>>
     /\ pc \in {"m_uart", "m_ret", "main_done"}
     /\ pc # "m_uart" => exc = "RuntimeError"
     /\ pc = "main_done" => rc = 1

C26_Witness ==
  find_stm32_port = "None" /\ pc = "main_done" /\ rc = 1 /\ val_data # <<>>

\* ---------------------------------------------------------------- claims: the reader and the foreground
\* C27: in send_command the clear of the log, the reset of the signal and
\* the write form one critical section with respect to the reader: the
\* reader appends no line and sets no signal between the clear and the
\* reset, or between the clear and the write
C27_ClearResetWriteAtomic ==
  [][(pc \in {"sc_clear_event", "sc_write"})
       => ~(rpc \in {"append", "set"} /\ rpc' # rpc)]_vars

\* C28: wait_for_message returns False only when no line of the log
\* contains expected: a matching line the reader appended while the
\* foreground was waiting is not missed
C28_FalseOnlyWithoutMatch ==
  [][(pc = "wm_check" /\ pc' \notin {"wm_check", "wm_scan"})
       => ~HasMatch(expected, last_messages)]_vars

\* Where the foreground is between the write of a command and the end of
\* the wait that follows the call: the acknowledgment wait, the settle
\* delay and the wait for 'TRAINING DONE'
AfterWrite == {"wm_scan", "wm_wait", "wm_check", "sc_waited", "sc_settle", "te_wait", "te_waited"}

\* C29: a line the device emits in response to a command, after send_command
\* wrote it, is not discarded by that send_command's clear: the reader
\* appends it to the log the acknowledgment wait and the wait for 'TRAINING
\* DONE' inspect, and no line leaves that log before those waits are over
C29_ResponsesKept ==
  [][(pc \in AfterWrite /\ written # <<>>)
       => /\ Len(last_messages') >= Len(last_messages)
          /\ \A i \in 1..Len(last_messages) : last_messages'[i] = last_messages[i]
          /\ (rpc = "append" /\ rpc' = "set" /\ rline.tag = Len(written))
               => last_messages' = Append(last_messages, rline)]_vars

\* the wait for 'TRAINING DONE' was served by a line sent after the class command
C29_Witness ==
  /\ pc = "te_waited" /\ wmres
  /\ matched.tag = 2 /\ Contains(TrainingDone, Text(matched))
  /\ \E i \in 1..Len(last_messages) : last_messages[i] = matched

\* The announcement lines among the lines received
Announced(log) == SelectSeq(log, LAMBDA l : Contains(InferenceComplete, Text(l)))

\* C30: within one call of wait_for_consecutive_inference each announcement
\* line received adds at most one entry to the vote window, so a decision
\* with confirmation count num is reached only after at least num
\* announcement lines were received
C30_OneEntryPerLine ==
  /\ pc \in {"wci_wait", "wci_check", "wci_clear", "wci_scan", "wci_for", "returned"}
       => Len(results) <= Len(Announced(last_messages))
  /\ (pc = "returned" /\ vres # -1) => Len(Announced(last_messages)) >= num

\* C31: every vote counted toward the decision for validation example i comes
\* from a line received after example i's image was presented; a line received
\* while the previous image was still on display never contributes.
C31_VotesOnlyAfterPresentation ==
  [][(pc = "wci_for" /\ results' # results /\ "rv_infer_ret" \in Range(stack))
       => Head(tail).at = Presented]_vars

\* The line the prediction of lines 356-362 is taken from
PredictionLine(log) ==
  log[CHOOSE i \in 1..Len(log) :
        /\ TrainingVote[Bare(log[i])].ok
        /\ \A j \in 1..(i - 1) : ~TrainingVote[Bare(log[j])].ok]

\* C32: a training outcome recorded for example i is based only on lines the
\* device emitted in response to example i's class command; a completion or
\* prediction line of an earlier example is never credited to a later one.
C32_OutcomeFromOwnResponses ==
  [][(pc = "te_waited" /\ pc' = "te_for" /\ tm'.completed = tm.completed + 1)
       => /\ matched.tag = Len(written)
          /\ PredictionLine(last_messages).tag = Len(written)]_vars

\* The chunks of a sequence that decode to a non-empty line, as texts
Kept(chunks) ==
  LET good == SelectSeq(chunks, LAMBDA l : Decodable(l) /\ Text(l) # <<>>)
  IN  [i \in 1..Len(good) |-> Bare(good[i])]

\* The line the reader has read and not yet appended
Held == IF rpc \in {"load", "append"} THEN <<rline>> ELSE <<>>

\* C33: a chunk that fails to decode is skipped (nothing appended, nothing
\* signalled) and does not stop the reader: while the handler runs, the log
\* followed by the line in hand and the decodable lines still in the buffer is
\* the sequence of decodable non-empty lines sent, in arrival order; the thread
\* has not ended, and once it is back at the top of its loop the signal has
\* been set for the last line of the log.
C33_UndecodableSkipped ==
  (running /\ pc = "idle") =>
     /\ rpc # "exit"
     /\ Kept(last_messages \o Held \o wire) = Kept(emitted)
     /\ (rpc = "loop" /\ last_messages # <<>>) =>
          (message_received /\ lastSet = last_messages[Len(last_messages)])
     /\ (rpc = "loop" /\ last_messages = <<>>) => ~message_received

C33_Witness ==
  /\ running /\ pc = "idle" /\ rpc = "loop" /\ wire = <<>>
  /\ emitted = <<Hello, Garbled, Inf4>>
  /\ Kept(last_messages) = <<Hello, Inf4>>
  /\ message_received

\* A marker line whose number is not an integer
Malformed(l) == l.k \in {"inf", "pred"} /\ ~(l.a # <<>> /\ \A i \in 1..Len(l.a) : IsDigit(l.a[i]))

WellFormedPredictions(log) ==
  SelectSeq(log, LAMBDA l : l.k = "pred" /\ ~Malformed(l))

\* C34: a marker line whose integer fails to parse is ignored and scanning
\* continues: a malformed 'INFERENCE COMPLETE' line adds no entry to the vote
\* window and the loop goes on with the next line; the prediction of a training
\* example is the number of the first well-formed 'TRAINING PREDICTION' line of
\* the log, whatever malformed ones precede it.
C34_MalformedIgnored ==
  [][/\ (pc = "wci_for" /\ tail # <<>> /\ tail' # tail /\ Malformed(Head(tail)))
          => (results' = results /\ pc' = "wci_for" /\ tail' = Tail(tail))
     /\ (pc = "te_waited" /\ pc' = "te_for" /\ wmres)
          => LET wf == WellFormedPredictions(last_messages)
             IN  IF wf # <<>>
                 THEN /\ tm'.completed = tm.completed + 1
                      /\ tm'.failed = tm.failed
                      /\ tm'.correct = tm.correct +
                           (IF DigitsVal(wf[1].a) = train_data[idx] THEN 1 ELSE 0)
                 ELSE /\ tm'.completed = tm.completed
                      /\ tm'.failed = tm.failed + 1]_vars

C34_Witness ==
  /\ pc = "te_for" /\ idx = 2
  /\ tm.completed = 1 /\ tm.correct = 1 /\ tm.failed = 1
  /\ \E j \in 1..Len(last_messages) :
       /\ Bare(last_messages[j]) = Pred(Str(train_data[2]))
       /\ \E i \in 1..(j - 1) : Bare(last_messages[i]) = Pred(<<"?">>)

WmStates == {"wm_scan", "wm_wait", "wm_check"}
WciStates == {"wci_start", "wci_wait", "wci_check", "wci_clear", "wci_scan", "wci_for"}

\* No line has been received and none is on its way
Silent == lastSet = NoLine /\ rline = NoLine /\ wire = <<>> /\ devq = <<>>

\* C35: every foreground wait ends whatever the device does (wait_for_message
\* and wait_for_consecutive_inference are left once entered), a session over
\* finite lists and a finite epoch count ends with close() returned (reader
\* ended, port closed), and with a device that stayed silent it ends by the
\* timeout error of the first command.
C35_WaitsAndSessionEnd ==
  /\ (pc \in WmStates) ~> (pc \notin WmStates)
  /\ (pc \in WciStates) ~> (pc \notin WciStates)
  /\ <>(pc = "main_done" /\ rpc = "exit" /\ ~serOpen)
  /\ []((pc = "main_done" /\ Silent) => (exc = "TimeoutError" /\ Len(written) = 1))

C35_Witness ==
  /\ pc = "main_done" /\ rpc = "exit" /\ ~serOpen
  /\ tm.failed = 1
  /\ \E i \in 1..Len(events) : events[i].e = "timeout"

\* The ids of the classes the split keeps, in catalog order
KeptIds ==
  IF exclude_class_0 THEN [k \in 1..(SplitClasses - 1) |-> k]
  ELSE [k \in 1..SplitClasses |-> k - 1]

RoundRobin(list) ==
  \A j \in 1..Len(list) : list[j][2] = KeptIds[((j - 1) % Len(KeptIds)) + 1]

\* C36: sequential split with K classes kept: the j-th training example
\* (0-based) belongs to the (j mod K)-th kept class in catalog order, and so
\* does the j-th validation example.
C36_RoundRobinOrder ==
  (split_pc = "returned" /\ split_method = "sequential") =>
     (RoundRobin(training_data) /\ RoundRobin(test_data))

C36_Witness ==
  /\ split_pc = "returned" /\ split_method = "sequential"
  /\ exclude_class_0
  /\ Len(training_data) >= 2 * Len(KeptIds)
  /\ Len(test_data) >= 2 * Len(KeptIds)
  /\ RoundRobin(training_data) /\ RoundRobin(test_data)

NoCounts(m) ==
  /\ m.true_positives = 0 /\ m.total = 0 /\ m.false_positives = 0
  /\ \A c \in DOMAIN m.per :
       m.per[c].true_positives = 0 /\ m.per[c].false_positives = 0 /\ m.per[c].total = 0

\* C37: train_mode() sets mode to 'train', increases epoch by exactly 1 and
\* sets step and all counts to zero; val_mode() sets mode to 'val', sets step
\* and all counts to zero and leaves epoch unchanged; over any sequence of
\* operations epoch never decreases and changes only in train_mode().
C37_ModeSwitches ==
  [][(mt_ops' # mt_ops) =>
       /\ mt_call'.op = "train_mode" =>
            /\ mt_mode' = "train" /\ mt_epoch' = mt_epoch + 1
            /\ mt_step' = 0 /\ NoCounts(metrics')
       /\ mt_call'.op = "val_mode" =>
            /\ mt_mode' = "val" /\ mt_epoch' = mt_epoch
            /\ mt_step' = 0 /\ NoCounts(metrics')
       /\ mt_epoch' >= mt_epoch
       /\ mt_epoch' # mt_epoch => mt_call'.op = "train_mode"]_vars

C37_Witness ==
  /\ mt_call.op = "val_mode" /\ mt_mode = "val"
  /\ mt_epoch = 2 /\ mt_step = 0 /\ NoCounts(metrics)
  /\ DOMAIN files # {}
  /\ \E n \in DOMAIN files : files[n].step > 0 /\ files[n].epoch = 1

\* The examples of the running epoch whose turn of the loop is over
Processed ==
  IF pc = "te_for" THEN idx
  ELSE IF pc \in {"te_show", "te_wait", "te_waited"} \/ "te_wait" \in Range(stack)
          \/ "te_waited" \in Range(stack)
  THEN idx - 1
  ELSE 0

InLoop ==
  \/ pc \in {"te_for", "te_show", "te_wait", "te_waited"}
  \/ "te_wait" \in Range(stack) \/ "te_waited" \in Range(stack)

\* C38: at every point of a training epoch completed_trainings +
\* failed_trainings is the number of examples processed so far,
\* correct_predictions <= completed_trainings, and the per-class totals sum
\* to completed_trainings.
C38_EpochTallies ==
  InLoop =>
    /\ tm.completed + tm.failed = Processed
    /\ tm.correct <= tm.completed
    /\ SumOver(tm.cm, "total") = tm.completed
    /\ SumOver(tm.cm, "correct") = tm.correct

C38_Witness ==
  /\ pc = "te_for" /\ idx = 2
  /\ tm.completed = 1 /\ tm.failed = 1 /\ tm.correct = 1
  /\ SumOver(tm.cm, "total") = 1

\* Every update is tallied once: as a true positive or as a false positive
Tallied(m, step) ==
  /\ m.true_positives + SumOver(m.per, "false_positives") = m.total
  /\ m.true_positives = SumOver(m.per, "true_positives")
  /\ step = m.total

\* C39: after any sequence of successful update calls since the last mode
\* switch, aggregate true positives + the per-class false positives equal the
\* aggregate total, the aggregate true positives equal the per-class true
\* positives, and step equals the aggregate total: a mode switch establishes
\* the three equalities and every call that succeeds keeps them.
C39_UpdatesTallied ==
  [][(mt_ops' # mt_ops) =>
       /\ mt_call'.op \in {"train_mode", "val_mode"} => Tallied(metrics', mt_step')
       /\ (Tallied(metrics, mt_step) /\ mt_err' = "none") => Tallied(metrics', mt_step')]_vars

C39_Witness ==
  /\ mt_call.op = "update" /\ mt_err = "none"
  /\ mt_epoch = 1 /\ mt_step = 3
  /\ metrics.true_positives = 1
  /\ SumOver(metrics.per, "false_positives") = 2
  /\ Tallied(metrics, mt_step)

\* C40: for a catalog of k >= 1 class names, the class count send_signal
\* parses from the header update_output_ch_file generated is k, and the
\* commands it accepts are '0'..'k-1' and 't', 'v', 'i'.
C40_ClassCountRoundTrip ==
  [][(ss_calls' = ss_calls + 1 /\ header.exists
        /\ header = Contents(header.labels) /\ Len(header.labels) >= 1)
       => /\ output_channel' = [ok |-> TRUE, val |-> Len(header.labels)]
          /\ valid_commands' = {Str(i) : i \in 0..(Len(header.labels) - 1)}
                                 \cup {<<"t">>, <<"v">>, <<"i">>}]_vars

====
